---- MODULE Spec2Model ----
(***************************************************************************)
(* Rainflow counting (4-point method), src/rainflow.c.                     *)
(*                                                                         *)
(* The rainflow context rfc_ctx_s is the record ctx.  Sample values, the   *)
(* class width, the class offset and the hysteresis are integers; the      *)
(* class window of a context is [class_offset, class_offset +              *)
(* class_width*class_count).  The model follows the build without          *)
(* assertion checking (NDEBUG): an assert whose condition is false is      *)
(* recorded in ctx.hist.assert (a build with assertions ends the process   *)
(* at that point).  An access of the residue at an index that is not less  *)
(* than the number of elements of the buffer is undefined behaviour: it is *)
(* recorded in ctx.hist.oob, and the step that performs it either finds    *)
(* the memory behind the buffer usable (the value written there is read    *)
(* back) or ends the process (halted).                                     *)
(*                                                                         *)
(* ctx.hist is the history of the context since its RFC_init, kept beside  *)
(* the fields of rfc_ctx_s: tp, the points appended to the residue; cycles,*)
(* the pairs of points the detector removed; counted, the cycles that      *)
(* reached the counters; feeds, the calls of RFC_feed that ran; chunks,    *)
(* those of them with samples; edges, the changes of the state as pairs    *)
(* (from, to); heap_res and heap_rfm, the blocks held from the allocator.  *)
(* Beside the history of the context, hist.calls counts    *)
(* the calls of the public functions made in any state, hist.last tells    *)
(* the last of them (the function, the state it found, its arguments and   *)
(* what it returned), and hist.uses counts the RFC_init calls that         *)
(* succeeded on the context of SpecReuse, hist.left being the pseudo damage *)
(* the last of them found there.                                           *)
(*                                                                         *)
(* rainflow.h is not part of src/: the order of the RFC_STATE_ values, the *)
(* counter increments and the size of the embedded residue are taken from  *)
(* the way rainflow.c uses them and from the specification.                *)
(***************************************************************************)
EXTENDS Integers, Sequences, FiniteSets, TLC

\* ctx: the rainflow context; fed: the samples fed to it since its init;
\* halted: the process has ended in an access outside the residue buffer
VARIABLES ctx, fed, halted

vars == <<ctx, fed, halted>>

(* ------------------------------ bounds --------------------------------- *)

\* Longest sample stream fed to one context between init and deinit.
MaxSamples == 5
\* Sample values are 0..MaxValue.
MaxValue == 3
\* Longest sample stream of the specification SpecLong.
MaxLongSamples == 6
\* Most RFC_feed calls on one context between init and deinit.
MaxFeeds == 3
\* Most calls of the specification SpecMisuse, made in any state.
MaxCalls == 4
\* Longest buffer fed by one call of the specification SpecMisuse.
MaxMisuseSamples == 2
\* Most successful RFC_init calls on the context of the specification SpecReuse.
MaxUses == 2
\* Longest sample stream of one use in the specification SpecReuse.
MaxReuseSamples == 4
\* Most samples of a test stream fed by one call in the specification
\* SpecReference.
MaxExampleChunk == 2

SampleValues == 0 .. MaxValue

\* Slots of the residue memory kept by the model: every append needs a sample
\* of its own, so no index beyond the length of the longest stream is used (the
\* streams of the tests are longer, and use at most six slots).
ResSlots == 0 .. (IF MaxLongSamples > MaxSamples THEN MaxLongSamples ELSE MaxSamples)

(* ------------------------ rainflow.h (not in src/) --------------------- *)

RFC_STATE_INIT0 == 0
RFC_STATE_INIT == 1
RFC_STATE_BUSY == 2
RFC_STATE_BUSY_INTERIM == 3
RFC_STATE_FINALIZE == 4
RFC_STATE_FINISHED == 5
RFC_STATE_ERROR == 6

RFC_FULL_CYCLE_INCREMENT == 2
RFC_HALF_CYCLE_INCREMENT == 1

\* NUMEL( rfc_ctx->internal.residue ): the embedded residue
INTERNAL_RESIDUE_NUMEL == 3

\* The largest count a matrix entry is meant to hold.  The model takes one full
\* cycle, so that the streams of the model get a counter there and beyond.
RFC_COUNTS_LIMIT == 2

\* flags are sets of flag names; RFC_FLAGS_DEFAULT is a value of its own
RFC_FLAGS_DEFAULT == {"RFC_FLAGS_DEFAULT"}
RFC_FLAGS_COUNT_RFM == {"RFC_FLAGS_COUNT_RFM"}
RFC_FLAGS_COUNT_DAMAGE == {"RFC_FLAGS_COUNT_DAMAGE"}

(* ------------------------------ values --------------------------------- *)

\* rfc_value_tuple_s nil = { 0.0 }
nil == [value |-> 0, cls |-> 0, pos |-> 0]

NilResidue == [i \in ResSlots |-> nil]

NoRfm == [i \in {} |-> 0]

\* C conversion of a quotient to an integer type: truncation towards zero
TruncDiv(n, d) == IF n >= 0 THEN n \div d ELSE -((-n) \div d)

\* QUANTIZE with class numbers of base 1
QUANTIZE_base1(r, v) == TruncDiv(v - r.class_offset, r.class_width) + 1

\* (unsigned)( (v - class_offset) / class_width ).  The samples of the model are
\* not below class_offset, so that the quotient is never negative.
QUANTIZE(r, v) == TruncDiv(v - r.class_offset, r.class_width)

Abs(x) == IF x < 0 THEN -x ELSE x

RECURSIVE Pow(_, _)
Pow(b, e) == IF e = 0 THEN 1 ELSE b * Pow(b, e - 1)

\* value_delta: the absolute difference and its sign (-1 or 1; 1 for 0)
value_delta(from_val, to_val) ==
    LET delta == to_val - from_val
    IN  [delta |-> Abs(delta), sign |-> IF delta < 0 THEN -1 ELSE 1]

(* ------------------------- residue memory ------------------------------ *)

\* e, evaluated once and named in F
With(e, F(_)) == CHOOSE r \in {F(x) : x \in {e}} : TRUE

\* rfc_ctx->residue[i] = tp.  The buffer holds residue_cap elements.
ResidueStore(c, i, tp) ==
    [c EXCEPT !.residue[i] = tp,
              !.hist.oob = @ \/ i >= c.residue_cap]

\* the history of a read of rfc_ctx->residue[i]
ResidueLoad(c, i) ==
    [c EXCEPT !.hist.oob = @ \/ i >= c.residue_cap]

\* rfc_ctx->state = s; the changes of the state since RFC_init are kept
SetState(c, s) ==
    [c EXCEPT !.state = s,
              !.hist.edges = IF c.state = s THEN @ ELSE @ \cup {<<c.state, s>>}]

\* assert( cond )
AssertThat(c, cond) == [c EXCEPT !.hist.assert = @ \/ ~cond]

(* ------------------------------ damage --------------------------------- *)

\* Amplitudes are carried doubled (Sa2 = 2*Sa, an integer) and a damage as the
\* integer numerator Sa2^|k| of the fraction (Sa/SD)^|k| / ND, whose denominator
\* 2^|k| * SD^|k| * ND is the same for every cycle of a context.
RFC_damage_calc_amplitude(c, Sa2) ==
    IF Sa2 >= 0 THEN Pow(Sa2, Abs(c.wl_k)) ELSE 0

\* RFC_damage_calc without abs(): the range of a falling cycle is negative
RFC_damage_calc_signed(c, class_from, class_to) ==
    IF class_from # class_to
    THEN RFC_damage_calc_amplitude(c, c.class_width * (class_to - class_from))
    ELSE 0

RFC_damage_calc(c, class_from, class_to) ==
    IF class_from # class_to
    THEN RFC_damage_calc_amplitude(c, c.class_width * Abs(class_to - class_from))
    ELSE 0

(* --------------------------- counter sinks ----------------------------- *)

\* ClampClass that pins a class beyond the last one to the first class
ClampClass_first(c, cls) ==
    IF cls >= c.class_count THEN 0 ELSE cls

\* if( class >= rfc_ctx->class_count ) class = rfc_ctx->class_count - 1
\* (the detector counts nothing while class_count is 0: no unsigned wrap)
ClampClass(c, cls) ==
    IF cls >= c.class_count THEN c.class_count - 1 ELSE cls

\* CountDamage storing the damage of the cycle instead of adding it
CountDamage_assign(c, class_from, class_to, flags) ==
    IF "RFC_FLAGS_COUNT_DAMAGE" \in flags
    THEN [c EXCEPT !.pseudo_damage =
             (RFC_damage_calc(c, class_from, class_to) * c.curr_inc)
                 \div c.full_inc]
    ELSE c

\* CountDamage that does not look at the flags
CountDamage_always(c, class_from, class_to, flags) ==
    [c EXCEPT !.pseudo_damage =
         @ + (RFC_damage_calc(c, class_from, class_to) * c.curr_inc)
                \div c.full_inc]

\* Cumulate pseudo damage
CountDamage(c, class_from, class_to, flags) ==
    IF "RFC_FLAGS_COUNT_DAMAGE" \in flags
    THEN [c EXCEPT !.pseudo_damage =
             @ + (RFC_damage_calc(c, class_from, class_to) * c.curr_inc)
                    \div c.full_inc]
    ELSE c

\* CountRfm adding half_inc for a closed cycle
CountRfm_half(c, class_from, class_to, flags) ==
    IF c.rfm_alloc /\ "RFC_FLAGS_COUNT_RFM" \in flags
    THEN [c EXCEPT !.rfm[c.class_count * class_from + class_to] = @ + c.half_inc]
    ELSE c

\* CountRfm taking the smaller class as the row whatever the direction
CountRfm_unordered(c, class_from, class_to, flags) ==
    IF c.rfm_alloc /\ "RFC_FLAGS_COUNT_RFM" \in flags
    THEN [c EXCEPT !.rfm[IF class_from < class_to
                         THEN c.class_count * class_from + class_to
                         ELSE c.class_count * class_to + class_from] =
                       @ + c.curr_inc]
    ELSE c

\* Rainflow matrix (row-major storage)
CountRfm(c, class_from, class_to, flags) ==
    IF c.rfm_alloc /\ "RFC_FLAGS_COUNT_RFM" \in flags
    THEN With(c.class_count * class_from + class_to, LAMBDA idx :
              [AssertThat(c, c.rfm[idx] <= RFC_COUNTS_LIMIT)
                   EXCEPT !.rfm[idx] = @ + c.curr_inc])
    ELSE c

\* RFC_cycle_process_counts without the test class_from != class_to
RFC_cycle_process_counts_diag(c, from, to, next, flags) ==
    With(ClampClass(c, QUANTIZE(c, from.value)), LAMBDA class_from :
    With(ClampClass(c, QUANTIZE(c, to.value)), LAMBDA class_to :
         CountRfm(CountDamage([c EXCEPT !.hist.counted = @ + 1],
                              class_from, class_to, flags),
                  class_from, class_to, flags)))

\* RFC_cycle_process_counts: from, to and next are residue elements
RFC_cycle_process_counts(c, from, to, next, flags) ==
    With(AssertThat(c, c.class_count = 0
                       \/ (from.value > c.class_offset
                           /\ to.value > c.class_offset)),
         LAMBDA c0 :
    With(ClampClass(c0, QUANTIZE(c0, from.value)), LAMBDA class_from :
    With(ClampClass(c0, QUANTIZE(c0, to.value)), LAMBDA class_to :
         IF class_from # class_to
         THEN With(CountDamage([c0 EXCEPT !.hist.counted = @ + 1],
                               class_from, class_to, flags),
                   LAMBDA c1 : CountRfm(c1, class_from, class_to, flags))
         ELSE c0)))

(* ----------------------- four point cycle detector --------------------- *)

\* Closes with the ranges strictly inside each other
Closes_strict(A0, B0, C0, D0) ==
    LET B == IF B0 > C0 THEN C0 ELSE B0
        C == IF B0 > C0 THEN B0 ELSE C0
        A == IF A0 > D0 THEN D0 ELSE A0
        D == IF A0 > D0 THEN A0 ELSE D0
    IN  A < B /\ C < D

\* A <= B && C <= D after sorting the pairs (B,C) and (A,D) of the values
\* A0, B0, C0, D0 of four consecutive points
Closes(A0, B0, C0, D0) ==
    LET B == IF B0 > C0 THEN C0 ELSE B0
        C == IF B0 > C0 THEN B0 ELSE C0
        A == IF A0 > D0 THEN D0 ELSE A0
        D == IF A0 > D0 THEN A0 ELSE D0
    IN  A <= B /\ C <= D

\* RemoveInner that takes out the last two of the four points
RemoveInner_last(c, idx) ==
    With(IF c.state = RFC_STATE_BUSY_INTERIM
         THEN ResidueStore(ResidueLoad(c, idx + 4), idx + 2, c.residue[idx + 4])
         ELSE c,
         LAMBDA c3 :
         [c3 EXCEPT !.residue_cnt = @ - 2, !.hist.cycles = @ + 1])

\* Remove two inner turning points (idx+1 and idx+2)
RemoveInner(c, idx) ==
    With(ResidueStore(c, idx + 1, c.residue[idx + 3]), LAMBDA c2 :
    With(IF c2.state = RFC_STATE_BUSY_INTERIM
         THEN ResidueStore(ResidueLoad(c2, idx + 4), idx + 2, c2.residue[idx + 4])
         ELSE c2,
         LAMBDA c3 :
         [c3 EXCEPT !.residue_cnt = @ - 2, !.hist.cycles = @ + 1]))

\* one pass of the loop of RFC_cycle_find_4ptm, residue_cnt >= 4: the context it
\* leaves and whether it found a closed cycle (it goes on) or not (break)
FourPointStep(c, flags) ==
    With(c.residue_cnt - 4, LAMBDA idx :
    With(ResidueLoad(c, idx + 3), LAMBDA r0 :
         IF Closes(r0.residue[idx + 0].value, r0.residue[idx + 1].value,
                   r0.residue[idx + 2].value, r0.residue[idx + 3].value)
         THEN With(RFC_cycle_process_counts(r0, r0.residue[idx + 1],
                       r0.residue[idx + 2], r0.residue[idx + 3], flags),
                   LAMBDA c1 : [ctx |-> RemoveInner(c1, idx), closed |-> TRUE])
         ELSE [ctx |-> r0, closed |-> FALSE]))

\* RFC_cycle_find_4ptm that stops after the first closed cycle
RFC_cycle_find_4ptm_once(c, flags) ==
    IF c.residue_cnt >= 4 THEN FourPointStep(c, flags).ctx ELSE c

RECURSIVE RFC_cycle_find_4ptm(_, _)
RFC_cycle_find_4ptm(c, flags) ==
    IF c.residue_cnt >= 4
    THEN With(FourPointStep(c, flags), LAMBDA r :
              IF r.closed THEN RFC_cycle_find_4ptm(r.ctx, flags) ELSE r.ctx)
    ELSE c

(* ------------------------- residue: remove ----------------------------- *)

RECURSIVE ShiftPoints(_, _, _, _)
ShiftPoints(c, from, to, end) ==
    IF from < end
    THEN With(ResidueStore(ResidueLoad(c, from), to, c.residue[from]), LAMBDA c1 :
              ShiftPoints(c1, from + 1, to + 1, end))
    ELSE c

RFC_residue_remove_item(c, index, count) ==
    With(AssertThat(c, c.residue_ptr # "NULL" /\ index + count <= c.residue_cnt),
         LAMBDA c0 :
    With(ShiftPoints(c0, index + count, index,
                     IF c0.state = RFC_STATE_BUSY_INTERIM
                     THEN c0.residue_cnt + 1 ELSE c0.residue_cnt),
         LAMBDA c1 :
         [c1 EXCEPT !.residue_cnt = @ - count]))

(* ------------------------ turning point filter ------------------------- *)

\* AppendInterim that gives the point it confirms the position of pt
AppendInterim_stamp(c, pt) ==
    With(AssertThat(c, c.state = RFC_STATE_BUSY_INTERIM
                       /\ c.residue_cnt < c.residue_cap),
         LAMBDA c0 :
         ResidueStore([c0 EXCEPT !.residue_cnt = @ + 1, !.hist.tp = @ + 1,
                                 !.residue[c0.residue_cnt].pos = pt.pos],
                      c0.residue_cnt + 1, pt))

\* Handle new turning point: residue[++residue_cnt] = *pt
AppendInterim(c, pt) ==
    With(AssertThat(c, c.state = RFC_STATE_BUSY_INTERIM
                       /\ c.residue_cnt < c.residue_cap),
         LAMBDA c0 :
         ResidueStore([c0 EXCEPT !.residue_cnt = @ + 1, !.hist.tp = @ + 1],
                      c0.residue_cnt + 1, pt))

\* FallingSlope taking a sample equal to an extremum for a new extremum
FallingSlope_ge(extrema, pt) ==
    IF pt.value <= extrema[0].value THEN 1
    ELSE IF pt.value >= extrema[1].value THEN 0 ELSE -1

\* Update local extrema: 1 for a new minimum, 0 for a new maximum, else -1
FallingSlope(extrema, pt) ==
    IF pt.value < extrema[0].value THEN 1
    ELSE IF pt.value > extrema[1].value THEN 0 ELSE -1

\* Still searching for first turning point(s), state BUSY
FilterFirst(c, pt) ==
    With(FallingSlope(c.internal.extrema, pt), LAMBDA is_falling_slope :
    With(IF is_falling_slope >= 0
         THEN [c.internal.extrema EXCEPT ![1 - is_falling_slope] = pt]
         ELSE c.internal.extrema,
         LAMBDA extrema :
    With([AssertThat(c, c.state = RFC_STATE_BUSY)
              EXCEPT !.internal.extrema = extrema],
         LAMBDA c1 :
         IF /\ is_falling_slope >= 0
            /\ value_delta(extrema[0].value, extrema[1].value).delta > c1.hysteresis
         THEN With(ResidueStore(AssertThat(c1, c1.residue_cnt < c1.residue_cap),
                                c1.residue_cnt, extrema[is_falling_slope]),
                   LAMBDA c3 :
                   [ctx |-> AppendInterim(
                                SetState([c3 EXCEPT
                                            !.internal.slope =
                                                IF is_falling_slope = 1
                                                THEN -1 ELSE 1,
                                            !.hist.tp = @ + 1],
                                         RFC_STATE_BUSY_INTERIM), pt),
                    new_tp |-> TRUE])
         ELSE [ctx |-> c1, new_tp |-> FALSE])))

\* FilterNext taking a reversal of exactly the hysteresis for a turning point
FilterNext_ge(c, pt) ==
    With(ResidueLoad(c, c.residue_cnt), LAMBDA c1 :
    With(c1.residue[c1.residue_cnt], LAMBDA interim :
    With(value_delta(interim.value, pt.value), LAMBDA d :
         IF d.sign = c1.internal.slope
         THEN [ctx |-> IF interim.value # pt.value
                       THEN ResidueStore(c1, c1.residue_cnt, pt) ELSE c1,
               new_tp |-> FALSE]
         ELSE IF d.delta >= c1.hysteresis /\ d.delta > 0
              THEN [ctx |-> AppendInterim(
                                [c1 EXCEPT !.internal.slope = d.sign], pt),
                    new_tp |-> TRUE]
              ELSE [ctx |-> c1, new_tp |-> FALSE])))

\* FilterNext with the interim point following a sample inside the band
FilterNext_follow(c, pt) ==
    With(ResidueLoad(c, c.residue_cnt), LAMBDA c1 :
    With(c1.residue[c1.residue_cnt], LAMBDA interim :
    With(value_delta(interim.value, pt.value), LAMBDA d :
         IF d.sign = c1.internal.slope
         THEN [ctx |-> IF interim.value # pt.value
                       THEN ResidueStore(c1, c1.residue_cnt, pt) ELSE c1,
               new_tp |-> FALSE]
         ELSE IF d.delta > c1.hysteresis
              THEN [ctx |-> AppendInterim(
                                [c1 EXCEPT !.internal.slope = d.sign], pt),
                    new_tp |-> TRUE]
              ELSE [ctx |-> ResidueStore(c1, c1.residue_cnt, pt),
                    new_tp |-> FALSE])))

\* FilterNext that replaces the interim point in scenario (1) without
\* comparing the values
FilterNext_overwrite(c, pt) ==
    With(ResidueLoad(AssertThat(c, c.state = RFC_STATE_BUSY_INTERIM),
                     c.residue_cnt),
         LAMBDA c1 :
    With(c1.residue[c1.residue_cnt], LAMBDA interim :
    With(value_delta(interim.value, pt.value), LAMBDA d :
         IF d.sign = c1.internal.slope
         THEN [ctx |-> ResidueStore(c1, c1.residue_cnt, pt), new_tp |-> FALSE]
         ELSE IF d.delta > c1.hysteresis
              THEN [ctx |-> AppendInterim(
                                [c1 EXCEPT !.internal.slope = d.sign], pt),
                    new_tp |-> TRUE]
              ELSE [ctx |-> c1, new_tp |-> FALSE])))

\* Consecutive search for turning points, state BUSY_INTERIM
FilterNext(c, pt) ==
    With(ResidueLoad(AssertThat(c, c.state = RFC_STATE_BUSY_INTERIM),
                     c.residue_cnt),
         LAMBDA c1 :
    With(c1.residue[c1.residue_cnt], LAMBDA interim :
    With(value_delta(interim.value, pt.value), LAMBDA d :
         IF d.sign = c1.internal.slope
         THEN \* Scenario (1), Continuous slope
              [ctx |-> IF interim.value # pt.value
                       THEN ResidueStore(c1, c1.residue_cnt, pt) ELSE c1,
               new_tp |-> FALSE]
         ELSE IF d.delta > c1.hysteresis
              THEN \* Scenario (2), slope reversal beyond the hysteresis
                   [ctx |-> AppendInterim(
                                [c1 EXCEPT !.internal.slope = d.sign], pt),
                    new_tp |-> TRUE]
              ELSE \* Scenario (3), still in hysteresis band
                   [ctx |-> c1, new_tp |-> FALSE])))

\* RFC_feed_filter_pt: the context after the sample pt, and whether a turning
\* point was found (the pointer returned is not NULL)
RFC_feed_filter_pt(c, pt) ==
    IF c.state < RFC_STATE_BUSY_INTERIM
    THEN IF c.state = RFC_STATE_INIT
         THEN \* Very first point, initialize local min-max search
              [ctx |-> SetState([c EXCEPT
                                   !.internal.extrema = [i \in 0 .. 1 |-> pt]],
                                RFC_STATE_BUSY),
               new_tp |-> FALSE]
         ELSE FilterFirst(c, pt)
    ELSE FilterNext(c, pt)

(* ------------------------------ feeding -------------------------------- *)

RFC_feed_once(c, pt, flags) ==
    With(RFC_feed_filter_pt(c, pt), LAMBDA f :
         IF f.new_tp
         THEN IF f.ctx.class_count # 0
              THEN RFC_cycle_find_4ptm(f.ctx, flags)
              ELSE IF f.ctx.residue_cnt > 1
                   THEN RFC_residue_remove_item(f.ctx, 0, 1)
                   ELSE f.ctx
         ELSE f.ctx)

\* RFC_feed_finalize leaving the interim turning point out of the residue
RFC_feed_finalize_drop(c) ==
    IF c.state < RFC_STATE_FINALIZE
    THEN SetState(c, RFC_STATE_FINALIZE)
    ELSE c

\* RFC_feed_finalize that does not look for a cycle the interim point closes
RFC_feed_finalize_no_find(c) ==
    IF c.state < RFC_STATE_FINALIZE
    THEN SetState(IF c.state = RFC_STATE_BUSY_INTERIM
                  THEN SetState([c EXCEPT !.residue_cnt = @ + 1],
                                RFC_STATE_BUSY)
                  ELSE c,
                  RFC_STATE_FINALIZE)
    ELSE c

RFC_feed_finalize(c) ==
    IF c.state < RFC_STATE_FINALIZE
    THEN With(IF c.state = RFC_STATE_BUSY_INTERIM
              THEN \* Adjust residue: Incorporate interim turning point
                   RFC_cycle_find_4ptm(
                       SetState([c EXCEPT !.residue_cnt = @ + 1],
                                RFC_STATE_BUSY),
                       c.internal.flags)
              ELSE c,
              LAMBDA c2 : SetState(c2, RFC_STATE_FINALIZE))
    ELSE c

RFC_finalize_res_ignore(c, flags) == RFC_feed_finalize(c)

(* --------------------------- public interface -------------------------- *)

\* RFC_wl_init( rfc_ctx, sd, nd, k )
RFC_wl_init(c, sd, nd, k) ==
    [c EXCEPT !.wl_sd = sd, !.wl_nd = nd, !.wl_k = -Abs(k)]

\* RFC_mem_alloc( NULL, num, size, aim ): ok is what the allocator answers
RFC_mem_alloc(ok, num) == ok /\ num > 0

\* RFC_deinit that leaves the position counter as it is
RFC_deinit_keep_pos(c) ==
    IF c.state < RFC_STATE_INIT
    THEN [ctx |-> c, ret |-> FALSE]
    ELSE [ctx |-> [SetState(c, RFC_STATE_INIT0) EXCEPT
                     !.hist.heap_res =
                         IF ~c.internal.res_static /\ c.residue_ptr # "NULL"
                         THEN @ - 1 ELSE @,
                     !.hist.heap_rfm = IF c.rfm_alloc THEN @ - 1 ELSE @,
                     !.residue_ptr = "NULL",
                     \* the content of a buffer that is no more the residue is
                     \* not kept
                     !.residue = NilResidue,
                     !.residue_cap = 0,
                     !.residue_cnt = 0,
                     !.rfm_alloc = FALSE,
                     !.rfm = NoRfm,
                     !.internal.slope = 0,
                     !.internal.extrema = [i \in 0 .. 1 |-> nil]],
          ret |-> TRUE]

\* RFC_deinit that passes the embedded residue to the allocator as well
RFC_deinit_free_static(c) ==
    IF c.state < RFC_STATE_INIT
    THEN [ctx |-> c, ret |-> FALSE]
    ELSE [ctx |-> [SetState(c, RFC_STATE_INIT0) EXCEPT
                     !.hist.heap_res =
                         IF c.residue_ptr # "NULL" THEN @ - 1 ELSE @,
                     !.hist.heap_rfm = IF c.rfm_alloc THEN @ - 1 ELSE @,
                     !.residue_ptr = "NULL",
                     \* the content of a buffer that is no more the residue is
                     \* not kept
                     !.residue = NilResidue,
                     !.residue_cap = 0,
                     !.residue_cnt = 0,
                     !.rfm_alloc = FALSE,
                     !.rfm = NoRfm,
                     !.internal.slope = 0,
                     !.internal.extrema = [i \in 0 .. 1 |-> nil],
                     !.internal.pos = 0],
          ret |-> TRUE]

\* RFC_deinit
RFC_deinit(c) ==
    IF c.state < RFC_STATE_INIT
    THEN [ctx |-> c, ret |-> FALSE]
    ELSE [ctx |-> [SetState(c, RFC_STATE_INIT0) EXCEPT
                     !.hist.heap_res =
                         IF ~c.internal.res_static /\ c.residue_ptr # "NULL"
                         THEN @ - 1 ELSE @,
                     !.hist.heap_rfm = IF c.rfm_alloc THEN @ - 1 ELSE @,
                     !.residue_ptr = "NULL",
                     \* the content of a buffer that is no more the residue is
                     \* not kept
                     !.residue = NilResidue,
                     !.residue_cap = 0,
                     !.residue_cnt = 0,
                     !.rfm_alloc = FALSE,
                     !.rfm = NoRfm,
                     !.internal.slope = 0,
                     !.internal.extrema = [i \in 0 .. 1 |-> nil],
                     !.internal.pos = 0],
          ret |-> TRUE]

\* InitParams that sets the current increment to the one of a half cycle
InitParams_half(c, class_count, class_width, class_offset, hysteresis, fl) ==
    RFC_wl_init([c EXCEPT !.internal.flags = fl,
                          !.full_inc = RFC_FULL_CYCLE_INCREMENT,
                          !.half_inc = RFC_HALF_CYCLE_INCREMENT,
                          !.curr_inc = RFC_HALF_CYCLE_INCREMENT,
                          !.class_count = class_count,
                          !.class_width = class_width,
                          !.class_offset = class_offset,
                          !.hysteresis = hysteresis],
                1000, 10000000, -5)

\* Flags, counter increments, class parameters, Woehler curve
InitParams(c, class_count, class_width, class_offset, hysteresis, fl) ==
    RFC_wl_init([c EXCEPT !.internal.flags = fl,
                          !.full_inc = RFC_FULL_CYCLE_INCREMENT,
                          !.half_inc = RFC_HALF_CYCLE_INCREMENT,
                          !.curr_inc = RFC_FULL_CYCLE_INCREMENT,
                          !.class_count = class_count,
                          !.class_width = class_width,
                          !.class_offset = class_offset,
                          !.hysteresis = hysteresis],
                1000, 10000000, -5)

\* Residue: the embedded one, or residue_cap elements from the allocator
InitResidue(c, alloc) ==
    With(2 * c.class_count <= INTERNAL_RESIDUE_NUMEL, LAMBDA static :
    With(static \/ RFC_mem_alloc(alloc.residue, 2 * c.class_count), LAMBDA got :
         [c EXCEPT
            !.internal.residue_cap = INTERNAL_RESIDUE_NUMEL,
            !.residue_cnt = 0,
            !.residue_cap = IF static THEN INTERNAL_RESIDUE_NUMEL
                            ELSE 2 * c.class_count,
            !.residue_ptr = IF static THEN "static"
                            ELSE IF got THEN "heap" ELSE "NULL",
            !.residue = NilResidue,
            !.internal.res_static = static,
            !.hist.heap_res = IF ~static /\ got THEN @ + 1 ELSE @]))

\* Non-sparse storages: the rainflow matrix
InitRfm(c, alloc) ==
    IF c.class_count # 0 /\ c.residue_ptr # "NULL"
       /\ "RFC_FLAGS_COUNT_RFM" \in c.internal.flags
    THEN IF RFC_mem_alloc(alloc.rfm, c.class_count * c.class_count)
         THEN [ctx |-> [c EXCEPT
                          !.rfm_alloc = TRUE,
                          !.rfm = [i \in 0 .. c.class_count * c.class_count - 1
                                     |-> 0],
                          !.hist.heap_rfm = @ + 1],
               ok |-> TRUE]
         ELSE [ctx |-> [c EXCEPT !.rfm_alloc = FALSE, !.rfm = NoRfm],
               ok |-> FALSE]
    ELSE [ctx |-> c, ok |-> c.residue_ptr # "NULL"]

\* RFC_init that takes a class width of zero
RFC_init_zero_width(c, class_count, class_width, class_offset, hysteresis, flags, alloc) ==
    IF c.state # RFC_STATE_INIT0
    THEN [ctx |-> c, ret |-> FALSE]
    ELSE IF class_count # 0 /\ (class_count > 512 \/ class_width < 0)
    THEN [ctx |-> [c EXCEPT
                     !.internal.flags =
                         IF flags = RFC_FLAGS_DEFAULT
                         THEN RFC_FLAGS_COUNT_RFM \cup RFC_FLAGS_COUNT_DAMAGE
                         ELSE flags,
                     !.full_inc = RFC_FULL_CYCLE_INCREMENT,
                     !.half_inc = RFC_HALF_CYCLE_INCREMENT,
                     !.curr_inc = RFC_FULL_CYCLE_INCREMENT,
                     !.error = "RFC_ERROR_INVARG"],
          ret |-> FALSE]
    ELSE
    With(InitParams(c, class_count, class_width, class_offset, hysteresis,
                    IF flags = RFC_FLAGS_DEFAULT
                    THEN RFC_FLAGS_COUNT_RFM \cup RFC_FLAGS_COUNT_DAMAGE
                    ELSE flags),
         LAMBDA c1 :
    With(InitResidue(c1, alloc), LAMBDA c2 :
    With(InitRfm(c2, alloc), LAMBDA m :
         IF class_count # 0 /\ ~m.ok
         THEN [ctx |-> [RFC_deinit(m.ctx).ctx EXCEPT !.error = "RFC_ERROR_INVARG"],
               ret |-> FALSE]
         ELSE [ctx |-> [m.ctx EXCEPT
                          !.pseudo_damage = 0,
                          !.internal.slope = 0,
                          !.internal.extrema = [i \in 0 .. 1 |-> nil],
                          !.state = RFC_STATE_INIT,
                          !.hist.edges = {<<m.ctx.state, RFC_STATE_INIT>>},
                          !.hist.tp = 0, !.hist.cycles = 0,
                          !.hist.counted = 0,
                          !.hist.feeds = 0, !.hist.chunks = 0,
                          !.hist.assert = FALSE, !.hist.oob = FALSE],
               ret |-> TRUE])))

\* RFC_init; alloc.residue and alloc.rfm are the answers of the allocator
RFC_init(c, class_count, class_width, class_offset, hysteresis, flags, alloc) ==
    IF c.state # RFC_STATE_INIT0
    THEN [ctx |-> c, ret |-> FALSE]
    ELSE IF class_count # 0 /\ (class_count > 512 \/ class_width <= 0)
    THEN [ctx |-> [c EXCEPT
                     !.internal.flags =
                         IF flags = RFC_FLAGS_DEFAULT
                         THEN RFC_FLAGS_COUNT_RFM \cup RFC_FLAGS_COUNT_DAMAGE
                         ELSE flags,
                     !.full_inc = RFC_FULL_CYCLE_INCREMENT,
                     !.half_inc = RFC_HALF_CYCLE_INCREMENT,
                     !.curr_inc = RFC_FULL_CYCLE_INCREMENT,
                     !.error = "RFC_ERROR_INVARG"],
          ret |-> FALSE]
    ELSE
    With(InitParams(c, class_count, class_width, class_offset, hysteresis,
                    IF flags = RFC_FLAGS_DEFAULT
                    THEN RFC_FLAGS_COUNT_RFM \cup RFC_FLAGS_COUNT_DAMAGE
                    ELSE flags),
         LAMBDA c1 :
    With(InitResidue(c1, alloc), LAMBDA c2 :
    With(InitRfm(c2, alloc), LAMBDA m :
         IF class_count # 0 /\ ~m.ok
         THEN [ctx |-> [RFC_deinit(m.ctx).ctx EXCEPT !.error = "RFC_ERROR_INVARG"],
               ret |-> FALSE]
         ELSE [ctx |-> [m.ctx EXCEPT
                          !.pseudo_damage = 0,
                          !.internal.slope = 0,
                          !.internal.extrema = [i \in 0 .. 1 |-> nil],
                          !.state = RFC_STATE_INIT,
                          !.hist.edges = {<<m.ctx.state, RFC_STATE_INIT>>},
                          !.hist.tp = 0, !.hist.cycles = 0,
                          !.hist.counted = 0,
                          !.hist.feeds = 0, !.hist.chunks = 0,
                          !.hist.assert = FALSE, !.hist.oob = FALSE],
               ret |-> TRUE])))

\* NextPoint with the position counter not advanced
NextPoint_stale(c, value) ==
    [value |-> value, cls |-> QUANTIZE(c, value), pos |-> c.internal.pos]

\* Assign class and global position (base 1): tp.pos = ++internal.pos
NextPoint(c, value) ==
    [value |-> value, cls |-> QUANTIZE(c, value), pos |-> c.internal.pos + 1]

FeedPoint(c, pt) ==
    RFC_feed_once([c EXCEPT !.internal.pos = pt.pos], pt, c.internal.flags)

\* while( data_count-- ): the samples data[1..Len(data)] one after the other
RECURSIVE FeedLoop(_, _)
FeedLoop(c, data) ==
    IF data = <<>>
    THEN c
    ELSE With(FeedPoint(c, NextPoint(c, Head(data))),
              LAMBDA c1 : FeedLoop(c1, Tail(data)))

\* RFC_feed counting the positions from the start of the buffer of the call
RFC_feed_pos_per_call(c, data, data_count) ==
    IF data_count # 0 /\ data.null
    THEN [ctx |-> c, ret |-> FALSE]
    ELSE IF c.state < RFC_STATE_INIT \/ c.state >= RFC_STATE_FINISHED
         THEN [ctx |-> c, ret |-> FALSE]
         ELSE [ctx |-> FeedLoop([c EXCEPT
                                   !.internal.pos = 0,
                                   !.hist.feeds = @ + 1,
                                   !.hist.chunks =
                                       IF data_count > 0 THEN @ + 1 ELSE @],
                                SubSeq(data.samples, 1, data_count)),
               ret |-> TRUE]

\* RFC_feed that takes no empty buffer
RFC_feed_needs_samples(c, data, data_count) ==
    IF data_count = 0 \/ data.null
    THEN [ctx |-> c, ret |-> FALSE]
    ELSE IF c.state < RFC_STATE_INIT \/ c.state >= RFC_STATE_FINISHED
         THEN [ctx |-> c, ret |-> FALSE]
         ELSE [ctx |-> FeedLoop([c EXCEPT
                                   !.hist.feeds = @ + 1,
                                   !.hist.chunks =
                                       IF data_count > 0 THEN @ + 1 ELSE @],
                                SubSeq(data.samples, 1, data_count)),
               ret |-> TRUE]

\* RFC_feed that takes samples in the state FINISHED too
RFC_feed_after_finished(c, data, data_count) ==
    IF data_count # 0 /\ data.null
    THEN [ctx |-> c, ret |-> FALSE]
    ELSE IF c.state < RFC_STATE_INIT \/ c.state > RFC_STATE_FINISHED
         THEN [ctx |-> c, ret |-> FALSE]
         ELSE [ctx |-> FeedLoop([c EXCEPT
                                   !.hist.feeds = @ + 1,
                                   !.hist.chunks =
                                       IF data_count > 0 THEN @ + 1 ELSE @],
                                SubSeq(data.samples, 1, data_count)),
               ret |-> TRUE]

\* RFC_feed; data.null tells a NULL buffer, data_count samples are read
RFC_feed(c, data, data_count) ==
    IF data_count # 0 /\ data.null
    THEN [ctx |-> c, ret |-> FALSE]
    ELSE IF c.state < RFC_STATE_INIT \/ c.state >= RFC_STATE_FINISHED
         THEN [ctx |-> c, ret |-> FALSE]
         ELSE [ctx |-> FeedLoop([c EXCEPT
                                   !.hist.feeds = @ + 1,
                                   !.hist.chunks =
                                       IF data_count > 0 THEN @ + 1 ELSE @],
                                SubSeq(data.samples, 1, data_count)),
               ret |-> TRUE]

\* the end of RFC_finalize
FinalizeEnd(c, ok) ==
    With(AssertThat(c, c.state = RFC_STATE_FINALIZE), LAMBDA c2 :
         [ctx |-> SetState([c2 EXCEPT
                              !.residue_cnt = IF c2.class_count = 0 THEN 0 ELSE @],
                           IF ok THEN RFC_STATE_FINISHED ELSE RFC_STATE_ERROR),
          ret |-> ok])

\* RFC_finalize
RFC_finalize(c, residual_method) ==
    IF c.state < RFC_STATE_INIT \/ c.state >= RFC_STATE_FINISHED
    THEN [ctx |-> c, ret |-> FALSE]
    ELSE IF residual_method \in {"RFC_RES_NONE", "RFC_RES_IGNORE"}
         THEN FinalizeEnd(RFC_finalize_res_ignore(c, c.internal.flags), TRUE)
         ELSE FinalizeEnd([AssertThat(c, FALSE) EXCEPT !.error = "RFC_ERROR_INVARG"],
                          FALSE)

(* --------------------------- the state machine ------------------------- *)

\* rfc_ctx_s ctx = { sizeof(ctx) }: everything else is zero
ctx0 ==
    [state |-> RFC_STATE_INIT0, error |-> "RFC_ERROR_NOERROR",
     class_count |-> 0, class_width |-> 0, class_offset |-> 0, hysteresis |-> 0,
     full_inc |-> 0, half_inc |-> 0, curr_inc |-> 0,
     wl_sd |-> 0, wl_nd |-> 0, wl_k |-> 0,
     residue_ptr |-> "NULL", residue |-> NilResidue,
     residue_cnt |-> 0, residue_cap |-> 0,
     rfm_alloc |-> FALSE, rfm |-> NoRfm,
     pseudo_damage |-> 0,
     internal |-> [flags |-> {}, slope |-> 0,
                   extrema |-> [i \in 0 .. 1 |-> nil],
                   pos |-> 0, residue_cap |-> 0, res_static |-> FALSE],
     hist |-> [tp |-> 0, cycles |-> 0, counted |-> 0, feeds |-> 0, chunks |-> 0,
               assert |-> FALSE, oob |-> FALSE, edges |-> {},
               heap_res |-> 0, heap_rfm |-> 0,
               calls |-> 0, uses |-> 0, left |-> 0,
               last |-> [op |-> "none", pre |-> RFC_STATE_INIT0, ret |-> TRUE,
                         arg |-> [none |-> TRUE]]]]

\* class_count, class_width, class_offset, hysteresis and flags of the contexts
\* of the model: no classes; a window 0..2 of three classes that the larger
\* samples leave; a window 0..3 of two classes of two values each
ClassChoices ==
    {[class_count |-> 0, class_width |-> 1],
     [class_count |-> 3, class_width |-> 1],
     [class_count |-> 2, class_width |-> 2]}

HysteresisChoices == {0, 1}

Configs ==
    {[class_count |-> cc.class_count, class_width |-> cc.class_width,
      class_offset |-> 0, hysteresis |-> h, flags |-> RFC_FLAGS_DEFAULT]
        : cc \in ClassChoices, h \in HysteresisChoices}

\* the context of SpecLong: three classes of one value, no hysteresis
LongConfigs ==
    {[class_count |-> 3, class_width |-> 1, class_offset |-> 0,
      hysteresis |-> 0, flags |-> RFC_FLAGS_DEFAULT]}

\* the values of the argument flags: RFC_FLAGS_DEFAULT and every combination
\* of the two counting flags
FlagChoices ==
    {RFC_FLAGS_DEFAULT, RFC_FLAGS_COUNT_RFM \cup RFC_FLAGS_COUNT_DAMAGE,
     RFC_FLAGS_COUNT_RFM, RFC_FLAGS_COUNT_DAMAGE, {}}

\* the contexts of SpecFlags: three classes of one value, no hysteresis, every
\* value of flags
FlagConfigs ==
    {[class_count |-> 3, class_width |-> 1, class_offset |-> 0,
      hysteresis |-> 0, flags |-> f] : f \in FlagChoices}

AllocOk == [residue |-> TRUE, rfm |-> TRUE]

ResidualMethods == {"RFC_RES_NONE", "RFC_RES_IGNORE"}

RECURSIVE SeqsOfLen(_, _)
SeqsOfLen(S, n) ==
    IF n = 0 THEN {<<>>}
    ELSE {Append(s, v) : s \in SeqsOfLen(S, n - 1), v \in S}

SeqsUpTo(S, n) == UNION {SeqsOfLen(S, k) : k \in 0 .. n}

Buffer(samples) == [null |-> FALSE, samples |-> samples]

NullBuffer == [null |-> TRUE, samples |-> <<>>]

InitOf(c, cfg, alloc) ==
    RFC_init(c, cfg.class_count, cfg.class_width, cfg.class_offset,
             cfg.hysteresis, cfg.flags, alloc)

Init ==
    /\ ctx = ctx0
    /\ fed = <<>>
    /\ halted = FALSE

\* RFC_init on a context in state INIT0 (in any other state it returns false
\* and changes nothing)
DoInit(configs) ==
    /\ ~halted
    /\ ctx.state = RFC_STATE_INIT0
    /\ \E cfg \in configs :
         ctx' = InitOf(ctx, cfg, AllocOk).ctx
    /\ fed' = <<>>
    /\ UNCHANGED halted

\* RFC_feed with a buffer of up to max - Len(fed) samples, in a state that
\* accepts samples.  The step that first accesses the residue outside its
\* buffer may end the process instead.
DoFeed(max) ==
    /\ ~halted
    /\ ctx.state >= RFC_STATE_INIT /\ ctx.state < RFC_STATE_FINISHED
    /\ ctx.hist.feeds < MaxFeeds
    /\ \E data \in SeqsUpTo(SampleValues, max - Len(fed)) :
         \E r \in {RFC_feed(ctx, Buffer(data), Len(data))} :
             \/ /\ ctx' = r.ctx
                /\ fed' = fed \o data
                /\ UNCHANGED halted
             \/ /\ r.ctx.hist.oob /\ ~ctx.hist.oob
                /\ halted' = TRUE
                /\ UNCHANGED <<ctx, fed>>

\* RFC_finalize in a state that accepts samples
DoFinalize(methods) ==
    /\ ~halted
    /\ ctx.state >= RFC_STATE_INIT /\ ctx.state < RFC_STATE_FINISHED
    /\ \E m \in methods :
         ctx' = RFC_finalize(ctx, m).ctx
    /\ UNCHANGED <<fed, halted>>

\* RFC_deinit in any state but INIT0
DoDeinit ==
    /\ ~halted
    /\ ctx.state >= RFC_STATE_INIT
    /\ ctx' = RFC_deinit(ctx).ctx
    /\ fed' = <<>>
    /\ UNCHANGED halted

(* ------------------------- the streams of the tests -------------------- *)

\* The tests take class_width 1, class_offset 0.5 and hysteresis 0.99 for
\* integer samples; the model carries all values doubled: class_width 2,
\* class_offset 1, even samples, and hysteresis 1 (of even distances the same
\* ones exceed 1 and 1.98).
ExampleConfigs ==
    {[class_count |-> cc, class_width |-> 2, class_offset |-> 1,
      hysteresis |-> 1, flags |-> RFC_FLAGS_DEFAULT] : cc \in {4, 6}}

\* data[] of RFC_cycle_up (four classes) and of RFC_small_example (six)
ExampleData(class_count) ==
    IF class_count = 4
    THEN <<2, 6, 4, 8>>
    ELSE <<4, 10, 6, 12, 4, 8, 2, 12, 2, 8, 2, 10, 6, 12, 6, 12, 2, 10, 4>>

\* RFC_feed with the next samples of the stream of a test, on the context of
\* that test
FeedExample(chunk) ==
    /\ ~halted
    /\ ctx.state >= RFC_STATE_INIT /\ ctx.state < RFC_STATE_FINISHED
    /\ ctx.class_offset = 1
    /\ Len(fed) < Len(ExampleData(ctx.class_count))
    /\ fed = SubSeq(ExampleData(ctx.class_count), 1, Len(fed))
    /\ \E n \in 1 .. chunk :
         /\ Len(fed) + n <= Len(ExampleData(ctx.class_count))
         /\ \E data \in {SubSeq(ExampleData(ctx.class_count),
                                 Len(fed) + 1, Len(fed) + n)} :
              \E r \in {RFC_feed(ctx, Buffer(data), n)} :
                  \/ /\ ctx' = r.ctx
                     /\ fed' = fed \o data
                     /\ UNCHANGED halted
                  \/ /\ r.ctx.hist.oob /\ ~ctx.hist.oob
                     /\ halted' = TRUE
                     /\ UNCHANGED <<ctx, fed>>

(* ------------------------- one context, used again --------------------- *)

\* the contexts of SpecReuse: three classes of one value without hysteresis,
\* two classes of two values with hysteresis 1
ReuseConfigs ==
    {[class_count |-> 3, class_width |-> 1, class_offset |-> 0,
      hysteresis |-> 0, flags |-> RFC_FLAGS_DEFAULT],
     [class_count |-> 2, class_width |-> 2, class_offset |-> 0,
      hysteresis |-> 1, flags |-> RFC_FLAGS_DEFAULT]}

\* RFC_init on a context in state INIT0: a zeroed one, or one that RFC_deinit
\* has left
DoReuse(configs) ==
    /\ ~halted
    /\ ctx.state = RFC_STATE_INIT0
    /\ ctx.hist.uses < MaxUses
    /\ \E cfg \in configs :
         ctx' = [InitOf(ctx, cfg, AllocOk).ctx EXCEPT
                   !.hist.uses = @ + 1,
                   !.hist.left = ctx.pseudo_damage]
    /\ fed' = <<>>
    /\ UNCHANGED halted

(* ------------------- calls in any state, any argument ------------------ *)

\* class parameters RFC_init is called with: the accepted ones, more than 512
\* classes, a class width of zero and a negative one, a negative hysteresis
MisuseConfigs ==
    {[class_count |-> cc[1], class_width |-> cc[2], class_offset |-> 0,
      hysteresis |-> cc[3], flags |-> RFC_FLAGS_DEFAULT]
        : cc \in {<<0, 1, 0>>, <<3, 1, 0>>, <<513, 1, 0>>, <<3, 0, 0>>,
                  <<3, -1, 0>>, <<3, 1, -1>>}}

\* what the allocator answers to the requests of one RFC_init
AllocAnswers ==
    {AllocOk, [residue |-> FALSE, rfm |-> TRUE], [residue |-> TRUE, rfm |-> FALSE]}

\* residual methods RFC_finalize is called with: RFC_RES_COUNT stands for
\* every value of the argument that is neither RFC_RES_NONE nor RFC_RES_IGNORE
MisuseMethods == ResidualMethods \cup {"RFC_RES_COUNT"}

\* the call just made, kept beside the context it left
Stamp(c, r, op, arg) ==
    [r.ctx EXCEPT !.hist.calls = c.hist.calls + 1,
                  !.hist.last = [op |-> op, pre |-> c.state, ret |-> r.ret,
                                 arg |-> arg]]

\* RFC_init in any state
CallInit(configs, allocs) ==
    /\ ~halted
    /\ ctx.hist.calls < MaxCalls
    /\ \E cfg \in configs, alloc \in allocs :
         \E r \in {InitOf(ctx, cfg, alloc)} :
             /\ ctx' = Stamp(ctx, r, "RFC_init", [cfg |-> cfg, alloc |-> alloc])
             /\ fed' = IF r.ret THEN <<>> ELSE fed
    /\ UNCHANGED halted

\* RFC_feed in any state, with a buffer or with NULL
CallFeed(max) ==
    /\ ~halted
    /\ ctx.hist.calls < MaxCalls
    /\ \E data \in SeqsUpTo(SampleValues, max), null \in BOOLEAN,
          data_count \in 0 .. max :
         /\ IF null THEN data = <<>> ELSE data_count = Len(data)
         /\ \E r \in {RFC_feed(ctx, IF null THEN NullBuffer ELSE Buffer(data),
                                data_count)} :
                /\ ctx' = Stamp(ctx, r, "RFC_feed",
                                [null |-> null, data_count |-> data_count])
                /\ fed' = IF r.ret THEN fed \o data ELSE fed
    /\ UNCHANGED halted

\* RFC_finalize in any state
CallFinalize(methods) ==
    /\ ~halted
    /\ ctx.hist.calls < MaxCalls
    /\ \E m \in methods :
         ctx' = Stamp(ctx, RFC_finalize(ctx, m), "RFC_finalize",
                      [residual_method |-> m])
    /\ UNCHANGED <<fed, halted>>

\* RFC_deinit in any state
CallDeinit ==
    /\ ~halted
    /\ ctx.hist.calls < MaxCalls
    /\ \E r \in {RFC_deinit(ctx)} :
         /\ ctx' = Stamp(ctx, r, "RFC_deinit", [none |-> TRUE])
         /\ fed' = IF r.ret THEN <<>> ELSE fed
    /\ UNCHANGED halted

(* ------------------------------ properties ----------------------------- *)

\* the residue points in use: the confirmed ones, then the interim one
InUse(c) ==
    IF c.state = RFC_STATE_BUSY_INTERIM THEN c.residue_cnt + 1 ELSE c.residue_cnt

\* v lies in the class window of c
InWindow(c, v) ==
    v >= c.class_offset /\ v < c.class_offset + c.class_width * c.class_count

AllInWindow(c, samples) ==
    \A i \in 1 .. Len(samples) : InWindow(c, samples[i])

RECURSIVE SumTo(_, _)
SumTo(f, n) == IF n = 0 THEN 0 ELSE f[n - 1] + SumTo(f, n - 1)

\* the sum of the entries of the rainflow matrix
SumRfm(c) == SumTo(c.rfm, c.class_count * c.class_count)

Reverse(s) == [i \in 1 .. Len(s) |-> s[Len(s) + 1 - i]]

\* consecutive differences are non-zero and alternate in sign
StrictTurningPoints(s) ==
    /\ \A i \in 1 .. Len(s) - 1 : s[i] # s[i + 1]
    /\ \A i \in 1 .. Len(s) - 2 : (s[i] < s[i + 1]) # (s[i + 1] < s[i + 2])

Distinct(s) == \A i, j \in 1 .. Len(s) : i # j => s[i] # s[j]

\* the context that RFC_init makes of a zeroed one with the parameters of c
Fresh(c) ==
    InitOf(ctx0, [class_count |-> c.class_count, class_width |-> c.class_width,
                  class_offset |-> c.class_offset, hysteresis |-> c.hysteresis,
                  flags |-> c.internal.flags], AllocOk).ctx

\* one RFC_feed call with all the samples on the fresh context
OneCall(c, samples) == RFC_feed(Fresh(c), Buffer(samples), Len(samples)).ctx

\* the samples fed at once, then RFC_finalize
OneCallFinalized(c, samples) ==
    RFC_finalize(OneCall(c, samples), "RFC_RES_IGNORE").ctx

\* what a caller reads from a context
Outcome(c) ==
    [rfm |-> c.rfm, pseudo_damage |-> c.pseudo_damage, residue |-> c.residue,
     residue_cnt |-> c.residue_cnt, slope |-> c.internal.slope,
     state |-> c.state]

\* C1: the context after feeding the samples fed in any number of RFC_feed
\* calls (empty ones included) has the rainflow matrix, pseudo damage, residue,
\* residue_cnt, slope and state of a fresh context of the same parameters fed
\* all samples in one call; after RFC_finalize, those of that context finalized.
C1_StreamingEquivalence ==
    /\ (ctx.state >= RFC_STATE_INIT /\ ctx.state < RFC_STATE_FINALIZE)
           => Outcome(ctx) = Outcome(OneCall(ctx, fed))
    /\ ctx.state = RFC_STATE_FINISHED
           => Outcome(ctx) = Outcome(OneCallFinalized(ctx, fed))

\* samples came in two calls, there was an empty call, a cycle was counted and
\* the context is finalized
C1_Witness ==
    /\ ctx.state = RFC_STATE_FINISHED
    /\ ctx.hist.chunks >= 2 /\ ctx.hist.feeds > ctx.hist.chunks
    /\ ctx.hist.counted >= 1
    /\ ctx.residue_cnt >= 2

\* C2: with classes and all samples in the class window, residue_cnt never
\* exceeds residue_cap.
C2_BoundedResidue ==
    (ctx.class_count > 0 /\ AllInWindow(ctx, fed))
        => ctx.residue_cnt <= ctx.residue_cap

\* C3 as written: the sum of the rainflow matrix over full_inc is the number of
\* closed cycles (pairs removed from the residue).
C3_SumIsClosedCycles ==
    ctx.rfm_alloc => SumRfm(ctx) = ctx.full_inc * ctx.hist.cycles

\* C3 amended: the sum of the rainflow matrix over full_inc is the number of
\* closed cycles whose end points lie, after clamping, in different classes.
C3_SumIsCountedCycles ==
    /\ ctx.rfm_alloc => SumRfm(ctx) = ctx.full_inc * ctx.hist.counted
    /\ ctx.hist.counted <= ctx.hist.cycles

\* a closed cycle within one class beside a counted one
C3_Witness ==
    /\ ctx.rfm_alloc
    /\ ctx.state = RFC_STATE_FINISHED
    /\ ctx.hist.counted >= 1
    /\ ctx.hist.cycles > ctx.hist.counted

\* C4: every diagonal entry of the rainflow matrix is zero.
C4_DiagonalZero ==
    ctx.rfm_alloc =>
        \A k \in 0 .. ctx.class_count - 1 : ctx.rfm[k * ctx.class_count + k] = 0

\* a cycle closed between a sample of the last class and one beyond the
\* window, clamped to the last class (classes of one value)
C4_Witness ==
    /\ ctx.rfm_alloc
    /\ ctx.class_width = 1
    /\ ctx.hist.cycles > ctx.hist.counted

\* C5: pseudo_damage is never negative, and no step of RFC_feed or
\* RFC_finalize decreases it.
C5_DamageMonotone ==
    /\ [](ctx.pseudo_damage >= 0)
    /\ [][(ctx.state >= RFC_STATE_INIT /\ ctx'.state >= RFC_STATE_INIT)
              => ctx'.pseudo_damage >= ctx.pseudo_damage]_vars

\* two cycles of different damage have been added
C5_Witness ==
    /\ ctx.hist.counted = 2
    /\ ctx.pseudo_damage = RFC_damage_calc(ctx, 0, 1) + RFC_damage_calc(ctx, 0, 2)

\* C6: the confirmed residue points alternate strictly between peak and valley
\* and adjacent ones differ by more than the hysteresis.
C6_ResidueAlternates ==
    /\ \A i \in 0 .. ctx.residue_cnt - 2 :
          /\ ctx.residue[i].value # ctx.residue[i + 1].value
          /\ Abs(ctx.residue[i + 1].value - ctx.residue[i].value) > ctx.hysteresis
    /\ \A i \in 0 .. ctx.residue_cnt - 3 :
          (ctx.residue[i].value < ctx.residue[i + 1].value)
              # (ctx.residue[i + 1].value < ctx.residue[i + 2].value)

\* the detector has removed a pair from a residue of a context with hysteresis
\* and left three confirmed points
C6_Witness ==
    /\ ctx.hysteresis > 0
    /\ ctx.hist.cycles >= 1
    /\ ctx.residue_cnt >= 3

\* C7 as written: after RFC_finalize, residue_cnt is the number of turning
\* points minus twice the number of closed cycles, class_count 0 included.
C7_ResidueCountAnyClassCount ==
    ctx.state = RFC_STATE_FINISHED
        => ctx.residue_cnt = ctx.hist.tp - 2 * ctx.hist.cycles

\* C7 amended: after RFC_finalize of a context with classes, residue_cnt is the
\* number of turning points minus twice the number of closed cycles.
C7_ResidueCount ==
    (ctx.state = RFC_STATE_FINISHED /\ ctx.class_count > 0)
        => ctx.residue_cnt = ctx.hist.tp - 2 * ctx.hist.cycles

\* finalized with a cycle closed and points left
C7_Witness ==
    /\ ctx.state = RFC_STATE_FINISHED
    /\ ctx.class_count > 0
    /\ ctx.hist.cycles >= 1
    /\ ctx.residue_cnt >= 3

\* C8: the pos fields of the residue points in use increase strictly with the
\* index.
C8_PosIncreasing ==
    \A i \in 0 .. InUse(ctx) - 2 : ctx.residue[i].pos < ctx.residue[i + 1].pos

\* an interim point behind points that a removed pair has made adjacent
C8_Witness ==
    /\ ctx.state = RFC_STATE_BUSY_INTERIM
    /\ ctx.hist.cycles >= 1
    /\ ctx.residue_cnt >= 2
    /\ ctx.residue[1].pos > ctx.residue[0].pos + 1

\* C9 as written: with classes, cls of every residue point in use is in
\* [0, class_count).
C9_ClassInRangeAnyStream ==
    ctx.class_count > 0 =>
        \A i \in 0 .. InUse(ctx) - 1 :
            ctx.residue[i].cls >= 0 /\ ctx.residue[i].cls < ctx.class_count

\* C9 amended: with classes and all samples in the class window, cls of every
\* residue point in use is in [0, class_count).
C9_ClassInRange ==
    (ctx.class_count > 0 /\ AllInWindow(ctx, fed)) =>
        \A i \in 0 .. InUse(ctx) - 1 :
            ctx.residue[i].cls >= 0 /\ ctx.residue[i].cls < ctx.class_count

\* a residue with a point of the last class
C9_Witness ==
    /\ ctx.class_count > 0 /\ AllInWindow(ctx, fed)
    /\ InUse(ctx) >= 3
    /\ \E i \in 0 .. InUse(ctx) - 1 : ctx.residue[i].cls = ctx.class_count - 1

\* the rainflow matrix of c is the transpose of that of d
Transposed(c, d) ==
    \A i, j \in 0 .. c.class_count - 1 :
        c.rfm[c.class_count * i + j] = d.rfm[c.class_count * j + i]

\* C10 as written: without hysteresis, the finalized matrix of a stream of
\* strict turning points is the transpose of that of the reversed stream.
C10_ReversalTransposes ==
    (/\ ctx.state = RFC_STATE_FINISHED
     /\ ctx.rfm_alloc
     /\ ctx.hysteresis = 0
     /\ StrictTurningPoints(fed))
        => Transposed(ctx, OneCallFinalized(ctx, Reverse(fed)))

\* C10 amended: the same for a stream of strict turning points whose values
\* are pairwise different.
C10_ReversalTransposesDistinct ==
    (/\ ctx.state = RFC_STATE_FINISHED
     /\ ctx.rfm_alloc
     /\ ctx.hysteresis = 0
     /\ StrictTurningPoints(fed)
     /\ Distinct(fed))
        => Transposed(ctx, OneCallFinalized(ctx, Reverse(fed)))

\* a finalized stream of different strict turning points with a counted cycle
C10_Witness ==
    /\ ctx.state = RFC_STATE_FINISHED
    /\ ctx.rfm_alloc
    /\ ctx.hysteresis = 0
    /\ StrictTurningPoints(fed) /\ Distinct(fed)
    /\ ctx.hist.counted >= 1

\* the states in which samples are taken: INIT, BUSY and BUSY_INTERIM
Feeding(state) == state >= RFC_STATE_INIT /\ state < RFC_STATE_FINISHED

\* the step is a call of one of the functions in ops
Called(ops) ==
    /\ ctx'.hist.calls = ctx.hist.calls + 1
    /\ ctx'.hist.last.op \in ops

\* what a rejected call has to leave alone
Observed(c) ==
    [state |-> c.state, residue |-> c.residue, residue_cnt |-> c.residue_cnt,
     rfm |-> c.rfm, pseudo_damage |-> c.pseudo_damage, pos |-> c.internal.pos]

\* C11: RFC_feed and RFC_finalize called in a state other than INIT, BUSY and
\* BUSY_INTERIM (that is, in INIT0, FINISHED or ERROR) return false and leave
\* the state, the residue, residue_cnt, the rainflow matrix, the pseudo damage
\* and the position counter as they were.
C11_RejectedOutsideFeeding ==
    [][(Called({"RFC_feed", "RFC_finalize"}) /\ ~Feeding(ctx.state))
          => (~ctx'.hist.last.ret /\ Observed(ctx') = Observed(ctx))]_vars

\* samples were offered to a finished context that holds a residue
C11_Witness ==
    /\ ctx.hist.last.op = "RFC_feed"
    /\ ctx.hist.last.pre = RFC_STATE_FINISHED
    /\ ~ctx.hist.last.arg.null /\ ctx.hist.last.arg.data_count > 0
    /\ ~ctx.hist.last.ret
    /\ ctx.residue_cnt > 0

\* d is what a finalize call made of c: every residual method of
\* ResidualMethods returns true and gives d, a finished context; of a context
\* with classes in BUSY_INTERIM, the interim point is the last confirmed point
\* of d, every pair the call removed took two points from the residue, and no
\* cycle is left to close at the end of the residue
Finalized(c, d) ==
    /\ d.state = RFC_STATE_FINISHED
    /\ \A m \in ResidualMethods : RFC_finalize(c, m) = [ctx |-> d, ret |-> TRUE]
    /\ (c.state = RFC_STATE_BUSY_INTERIM /\ c.class_count > 0) =>
          /\ d.residue_cnt =
                c.residue_cnt + 1 - 2 * (d.hist.cycles - c.hist.cycles)
          /\ d.residue[d.residue_cnt - 1] = c.residue[c.residue_cnt]
          /\ d.residue_cnt >= 4 =>
                ~Closes(d.residue[d.residue_cnt - 4].value,
                        d.residue[d.residue_cnt - 3].value,
                        d.residue[d.residue_cnt - 2].value,
                        d.residue[d.residue_cnt - 1].value)
    /\ c.state # RFC_STATE_BUSY_INTERIM =>
          (d.residue_cnt = c.residue_cnt \/ c.class_count = 0)

C13_UnknownMethodKeepsState ==
    [][(/\ Called({"RFC_finalize"})
        /\ Feeding(ctx.state)
        /\ ctx'.hist.last.arg.residual_method \notin ResidualMethods)
          => (/\ ~ctx'.hist.last.ret
              /\ ctx'.error = "RFC_ERROR_INVARG"
              /\ ctx'.state = ctx.state
              /\ ctx'.hist.assert = ctx.hist.assert)]_vars

\* C14: a call of RFC_init, RFC_feed, RFC_finalize or RFC_deinit that returns
\* false has stored an error code: a state error when the function is forbidden
\* in the state it found, RFC_ERROR_INVARG when RFC_feed got a NULL buffer with
\* a count that is not zero.
C14_FailureStoresError ==
    (ctx.hist.last.op # "none" /\ ~ctx.hist.last.ret) =>
        /\ ctx.error # "RFC_ERROR_NOERROR"
        /\ (/\ ctx.hist.last.op \in {"RFC_feed", "RFC_finalize"}
            /\ ~Feeding(ctx.hist.last.pre)) => ctx.error = "RFC_ERROR_STATE"
        /\ (/\ ctx.hist.last.op = "RFC_feed"
            /\ Feeding(ctx.hist.last.pre)
            /\ ctx.hist.last.arg.null) => ctx.error = "RFC_ERROR_INVARG"

\* d is what RFC_init made of a context in INIT0, called with the class
\* parameters cfg, the allocator answering alloc, and returning ret
InitContract(c, d, cfg, alloc, ret) ==
    /\ (cfg.class_count > 512 \/ (cfg.class_count > 0 /\ cfg.class_width <= 0)) =>
          /\ ~ret
          /\ d.error = "RFC_ERROR_INVARG"
          /\ d.state = RFC_STATE_INIT0
          /\ d.hist.heap_res = c.hist.heap_res
          /\ d.hist.heap_rfm = c.hist.heap_rfm
          /\ d.residue_ptr = c.residue_ptr /\ d.rfm_alloc = c.rfm_alloc
    /\ (/\ cfg.class_count <= 512
        /\ (cfg.class_count = 0 \/ cfg.class_width > 0)
        /\ alloc = AllocOk) =>
          /\ ret
          /\ d.state = RFC_STATE_INIT
          /\ d.residue_cnt = 0
          /\ d.pseudo_damage = 0
          /\ d.rfm_alloc = (cfg.class_count > 0)
          /\ DOMAIN d.rfm = 0 .. cfg.class_count * cfg.class_count - 1
          /\ \A i \in DOMAIN d.rfm : d.rfm[i] = 0

\* C15: RFC_init in INIT0 with class_count > 512, or with class_count > 0 and
\* class_width <= 0, returns false, stores RFC_ERROR_INVARG, stays in INIT0 and
\* allocates nothing; with class_count <= 512, class_count = 0 or
\* class_width > 0, and an allocator that works, it returns true in INIT with
\* residue_cnt = 0, pseudo_damage = 0 and a rainflow matrix of zeros.
C15_InitValidatesClasses ==
    [][(Called({"RFC_init"}) /\ ctx.state = RFC_STATE_INIT0)
          => InitContract(ctx, ctx', ctx'.hist.last.arg.cfg,
                          ctx'.hist.last.arg.alloc, ctx'.hist.last.ret)]_vars

\* RFC_init has made a context with a matrix, and the error code of an earlier
\* call that it rejected is still stored
C15_Witness ==
    /\ ctx.hist.last.op = "RFC_init" /\ ctx.hist.last.ret
    /\ ctx.hist.last.arg.alloc = AllocOk
    /\ ctx.state = RFC_STATE_INIT
    /\ ctx.rfm_alloc
    /\ ctx.error = "RFC_ERROR_INVARG"
    /\ ctx.hist.heap_res = 1 /\ ctx.hist.heap_rfm = 1

\* C16: RFC_init called with hysteresis < 0 returns false, stores
\* RFC_ERROR_INVARG, and the context does not reach INIT.
C16_NegativeHysteresisRejected ==
    (/\ ctx.hist.last.op = "RFC_init"
     /\ ctx.hist.last.pre = RFC_STATE_INIT0
     /\ ctx.hist.last.arg.cfg.hysteresis < 0) =>
        /\ ~ctx.hist.last.ret
        /\ ctx.error = "RFC_ERROR_INVARG"
        /\ ctx.state # RFC_STATE_INIT

\* RFC_init with the class parameters cfg asks the allocator for the residue
\* (more elements than the embedded residue holds), then for the matrix
AllocFails(cfg, alloc) ==
    /\ cfg.class_count > 0 /\ cfg.class_count <= 512 /\ cfg.class_width > 0
    /\ \/ 2 * cfg.class_count > INTERNAL_RESIDUE_NUMEL /\ ~alloc.residue
       \/ ~alloc.rfm

\* C17: when the allocator fails for the residue or for the rainflow matrix,
\* RFC_init returns false, the error code stored is the allocation error (not
\* RFC_ERROR_INVARG) and the state is ERROR.
C17_AllocFailureIsError ==
    (/\ ctx.hist.last.op = "RFC_init"
     /\ ctx.hist.last.pre = RFC_STATE_INIT0
     /\ AllocFails(ctx.hist.last.arg.cfg, ctx.hist.last.arg.alloc)) =>
        /\ ~ctx.hist.last.ret
        /\ ctx.error = "RFC_ERROR_ALLOC"
        /\ ctx.state = RFC_STATE_ERROR

\* C18: counting a closed cycle never takes an entry of the rainflow matrix
\* above RFC_COUNTS_LIMIT: the entry is left at the limit, the call returns
\* false, an overflow error is stored and the state becomes ERROR; so no entry
\* exceeds RFC_COUNTS_LIMIT in any reachable state.
C18_CountersGuarded ==
    \A i \in DOMAIN ctx.rfm : ctx.rfm[i] <= RFC_COUNTS_LIMIT

\* the fields of rfc_ctx_s, without the history kept beside them
Fields(c) == [c EXCEPT !.hist = 0]

\* C19: after a successful RFC_init, RFC_feed with no samples returns true and
\* leaves the context, in INIT, as it was; RFC_finalize( RFC_RES_NONE ) then
\* returns true with state FINISHED, residue_cnt = 0 and a rainflow matrix of
\* zeros, with class_count > 0 and with class_count = 0.
C19_EmptyStream ==
    [][/\ (/\ Called({"RFC_feed"})
           /\ ctx.state = RFC_STATE_INIT
           /\ ctx'.hist.last.arg.data_count = 0)
             => (ctx'.hist.last.ret /\ Fields(ctx') = Fields(ctx))
       /\ (/\ Called({"RFC_finalize"})
           /\ ctx.state = RFC_STATE_INIT
           /\ ctx'.hist.last.arg.residual_method = "RFC_RES_NONE")
             => (/\ ctx'.hist.last.ret
                 /\ ctx'.state = RFC_STATE_FINISHED
                 /\ ctx'.residue_cnt = 0
                 /\ ctx'.rfm_alloc = (ctx.class_count > 0)
                 /\ \A i \in DOMAIN ctx'.rfm : ctx'.rfm[i] = 0)]_vars

\* a context with a matrix, finished after one RFC_feed without samples
C19_Witness ==
    /\ ctx.hist.last.op = "RFC_finalize"
    /\ ctx.hist.last.pre = RFC_STATE_INIT
    /\ ctx.hist.last.arg.residual_method = "RFC_RES_NONE"
    /\ ctx.hist.feeds = 1
    /\ ctx.state = RFC_STATE_FINISHED
    /\ ctx.rfm_alloc

\* what a caller reads from a context and its residue points in use
Produced(c) ==
    [rfm |-> c.rfm, pseudo_damage |-> c.pseudo_damage,
     residue_cnt |-> c.residue_cnt, state |-> c.state,
     points |-> [i \in 0 .. InUse(c) - 1 |-> c.residue[i]]]

\* C20: a context that went through RFC_init, RFC_feed calls, RFC_finalize
\* and RFC_deinit, and is set up again by RFC_init, gives for the stream it is
\* then fed the rainflow matrix, the pseudo damage and the residue points
\* (values and positions, counted from 1 again) of a context never used.
C20_ReuseIsFresh ==
    ctx.hist.uses >= 2 =>
        /\ (ctx.state >= RFC_STATE_INIT /\ ctx.state < RFC_STATE_FINALIZE)
               => Produced(ctx) = Produced(OneCall(ctx, fed))
        /\ ctx.state = RFC_STATE_FINISHED
               => Produced(ctx) = Produced(OneCallFinalized(ctx, fed))

\* the second use of a context that a first use left with pseudo damage: a
\* cycle is counted again, points are left, the first of them at position 1
C20_Witness ==
    /\ ctx.hist.uses = 2
    /\ ctx.hist.left > 0
    /\ ctx.state = RFC_STATE_FINISHED
    /\ ctx.hist.counted >= 1
    /\ ctx.residue_cnt >= 2
    /\ ctx.residue[0].pos = 1

(* The batch reference: all turning points of the stream first, the       *)
(* four-point rule on a stack of them second, the counts of the cycles     *)
(* third.                                                                  *)

\* one sample more for the turning-point search: t.tps are the turning points
\* found, t.run the last point of the current run, t.dir its direction (0
\* before the first turning point), t.lo and t.hi the lowest and the highest
\* point so far
RefSample(t, p, h) ==
    IF t.lo.pos = 0
    THEN [t EXCEPT !.lo = p, !.hi = p]
    ELSE IF t.dir = 0
    THEN IF p.value < t.lo.value
         THEN IF t.hi.value - p.value > h
              THEN [t EXCEPT !.tps = <<t.hi>>, !.run = p, !.dir = -1, !.lo = p]
              ELSE [t EXCEPT !.lo = p]
         ELSE IF p.value > t.hi.value
         THEN IF p.value - t.lo.value > h
              THEN [t EXCEPT !.tps = <<t.lo>>, !.run = p, !.dir = 1, !.hi = p]
              ELSE [t EXCEPT !.hi = p]
         ELSE t
    ELSE IF (p.value - t.run.value) * t.dir > 0
    THEN [t EXCEPT !.run = p]
    ELSE IF (t.run.value - p.value) * t.dir > h
    THEN [t EXCEPT !.tps = Append(@, t.run), !.run = p, !.dir = -t.dir]
    ELSE t

RECURSIVE RefSearch(_, _, _, _)
RefSearch(t, samples, i, h) ==
    IF i > Len(samples) THEN t
    ELSE RefSearch(RefSample(t, [value |-> samples[i], pos |-> i], h),
                   samples, i + 1, h)

\* the turning points of the stream, the end of the last run included
RefTurningPoints(samples, h) ==
    With(RefSearch([tps |-> <<>>, run |-> [value |-> 0, pos |-> 0], dir |-> 0,
                    lo |-> [value |-> 0, pos |-> 0],
                    hi |-> [value |-> 0, pos |-> 0]], samples, 1, h),
         LAMBDA t : IF t.dir = 0 THEN <<>> ELSE Append(t.tps, t.run))

Min2(a, b) == IF a < b THEN a ELSE b

Max2(a, b) == IF a < b THEN b ELSE a

\* the four-point rule on the top of the stack: k.stack are the points left,
\* k.cycles the pairs taken out, in the order they were taken
RECURSIVE RefReduce(_)
RefReduce(k) ==
    IF Len(k.stack) < 4 THEN k
    ELSE With(Len(k.stack), LAMBDA n :
         IF /\ Min2(k.stack[n - 3].value, k.stack[n].value)
                   <= Min2(k.stack[n - 2].value, k.stack[n - 1].value)
            /\ Max2(k.stack[n - 2].value, k.stack[n - 1].value)
                   <= Max2(k.stack[n - 3].value, k.stack[n].value)
         THEN RefReduce([stack |-> Append(SubSeq(k.stack, 1, n - 3), k.stack[n]),
                         cycles |-> Append(k.cycles,
                                           <<k.stack[n - 2].value,
                                             k.stack[n - 1].value>>)])
         ELSE k)

RECURSIVE RefFourPoint(_, _, _)
RefFourPoint(k, tps, i) ==
    IF i > Len(tps) THEN k
    ELSE RefFourPoint(RefReduce([k EXCEPT !.stack = Append(@, tps[i])]),
                      tps, i + 1)

\* the stack and the cycles of a stream
RefRainflow(samples, h) ==
    RefFourPoint([stack |-> <<>>, cycles |-> <<>>], RefTurningPoints(samples, h), 1)

\* class_of(v) = floor((v - class_offset) / class_width)
RefClass(c, v) == (v - c.class_offset) \div c.class_width

\* the cycles of the sequence from class cf to another class ct
RefCount(c, cycles, cf, ct) ==
    IF cf = ct THEN 0
    ELSE Cardinality({i \in 1 .. Len(cycles) :
                         /\ RefClass(c, cycles[i][1]) = cf
                         /\ RefClass(c, cycles[i][2]) = ct})

\* the context c, finished, holds the matrix and the residue of the reference
\* for the stream samples
AsReference(c, samples) ==
    With(RefRainflow(samples, c.hysteresis), LAMBDA k :
         /\ c.residue_cnt = Len(k.stack)
         /\ \A i \in 1 .. Len(k.stack) : c.residue[i - 1].value = k.stack[i].value
         /\ \A cf, ct \in 0 .. c.class_count - 1 :
                c.rfm[c.class_count * cf + ct]
                    = c.full_inc * RefCount(c, k.cycles, cf, ct))

\* the value v of a test, doubled, as the class that rfm_peek gives it
PeekClass(c, v) == TruncDiv(2 * v - c.class_offset, c.class_width)

rfm_peek(c, from, to) == c.rfm[PeekClass(c, from) * c.class_count + PeekClass(c, to)]

\* what RFC_cycle_up expects: one cycle, from 3 to 2, the residue 1, 4 at the
\* positions 1, 4
CycleUpResult(c) ==
    /\ SumRfm(c) = 1 * c.full_inc
    /\ rfm_peek(c, 3, 2) = 1 * c.full_inc
    /\ c.residue_cnt = 2
    /\ c.residue[0].value = 2 * 1 /\ c.residue[1].value = 2 * 4
    /\ c.residue[0].pos = 1 /\ c.residue[1].pos = 4

\* what RFC_small_example expects: seven cycles, the residue 2, 6, 1, 5, 2
SmallExampleResult(c) ==
    /\ SumRfm(c) = 7 * c.full_inc
    /\ rfm_peek(c, 5, 3) = 2 * c.full_inc
    /\ rfm_peek(c, 6, 3) = 1 * c.full_inc
    /\ rfm_peek(c, 1, 4) = 1 * c.full_inc
    /\ rfm_peek(c, 2, 4) = 1 * c.full_inc
    /\ rfm_peek(c, 1, 6) = 2 * c.full_inc
    /\ c.residue_cnt = 5
    /\ \A i \in 1 .. 5 : c.residue[i - 1].value = 2 * <<2, 6, 1, 5, 2>>[i]

\* C21: for every stream of samples in the class window, the rainflow matrix
\* and the residue values after RFC_feed and RFC_finalize are those of the
\* batch reference (turning points first, four-point rule on a stack second);
\* 1,3,2,4 with four classes gives one cycle from 3 to 2 and the residue 1, 4
\* at the positions 1, 4; the ASTM stream with six classes gives seven cycles
\* and the residue 2, 6, 1, 5, 2.
C21_ReferenceEquivalence ==
    (ctx.state = RFC_STATE_FINISHED /\ ctx.class_count > 0
     /\ AllInWindow(ctx, fed)) =>
        /\ AsReference(ctx, fed)
        /\ (ctx.class_count = 4 /\ fed = ExampleData(4)) => CycleUpResult(ctx)
        /\ (ctx.class_count = 6 /\ fed = ExampleData(6))
              => SmallExampleResult(ctx)

\* the ASTM stream has been fed to the end in several calls, and finalized
C21_Witness ==
    /\ ctx.state = RFC_STATE_FINISHED
    /\ ctx.class_count = 6
    /\ fed = ExampleData(6)
    /\ ctx.hist.feeds > 10
    /\ ctx.hist.counted = 7

\* in BUSY_INTERIM, the sample v does not go on in the direction of the slope
\* and is no more than the hysteresis away from the interim point
Suppressed(c, v) ==
    /\ c.state = RFC_STATE_BUSY_INTERIM
    /\ (v - c.residue[c.residue_cnt].value) * c.internal.slope <= 0
    /\ Abs(v - c.residue[c.residue_cnt].value) <= c.hysteresis

\* the stream without its i-th sample
Without(samples, i) ==
    SubSeq(samples, 1, i - 1) \o SubSeq(samples, i + 1, Len(samples))

\* the i-th sample of the stream is one that the context c, fed the samples
\* before it, finds against the slope and inside the hysteresis band
Wiggle(c, samples, i) ==
    Suppressed(OneCall(c, SubSeq(samples, 1, i - 1)), samples[i])

\* the residue values, the number of residue points and the matrix
Counted(c) ==
    [rfm |-> c.rfm, residue_cnt |-> c.residue_cnt, state |-> c.state,
     values |-> [i \in 0 .. InUse(c) - 1 |-> c.residue[i].value]]

\* C22: in BUSY_INTERIM a sample that moves against the slope by no more than
\* the hysteresis leaves residue, residue_cnt, slope, rainflow matrix, pseudo
\* damage and state as they were, and advances the position counter; so a
\* stream gives the residue values and the matrix of the stream without such
\* a sample.
C22_HysteresisSuppression ==
    /\ [][(/\ Len(fed') = Len(fed) + 1
           /\ fed' = Append(fed, fed'[Len(fed')])
           /\ Suppressed(ctx, fed'[Len(fed')]))
             => (/\ Outcome(ctx') = Outcome(ctx)
                 /\ ctx'.internal.pos = ctx.internal.pos + 1)]_vars
    /\ [](Feeding(ctx.state) =>
            \A i \in 1 .. Len(fed) :
                Wiggle(ctx, fed, i)
                    => Counted(ctx) = Counted(OneCall(ctx, Without(fed, i))))
    /\ [](ctx.state = RFC_STATE_FINISHED =>
            \A i \in 1 .. Len(fed) :
                Wiggle(ctx, fed, i)
                    => Counted(ctx)
                           = Counted(OneCallFinalized(ctx, Without(fed, i))))

\* a sample one below the peak was passed over, the peak came again, and the
\* stream went on to a reversal: 0, 3, 2, 3, 0 with hysteresis 1
C22_Witness ==
    /\ ctx.state = RFC_STATE_FINISHED
    /\ ctx.hysteresis > 0
    /\ Len(fed) = 5
    /\ Wiggle(ctx, fed, 3) /\ fed[3] < fed[2] /\ fed[4] >= fed[2]
    /\ ctx.residue_cnt = 3

\* the step feeds one sample, which confirms a turning point that the
\* detector leaves in the residue
Confirms ==
    /\ Len(fed') = Len(fed) + 1
    /\ ctx'.state = RFC_STATE_BUSY_INTERIM
    /\ ctx'.hist.tp > ctx.hist.tp
    /\ ctx'.hist.cycles = ctx.hist.cycles
    /\ ctx'.residue_cnt >= 1

\* C23 as written: the pos stored for a turning point that the filter has just
\* confirmed is the position of the sample that confirmed it, the new interim
\* point.
C23_PosOfConfirmingSample ==
    [][Confirms => ctx'.residue[ctx'.residue_cnt - 1].pos = ctx'.internal.pos]_vars

\* C23 amended: the pos of every residue point in use, confirmed or interim, is
\* the position of the sample that carried its value, the first one of its run
\* to do so.
C23_PosOfOwnSample ==
    \A i \in 0 .. InUse(ctx) - 1 :
        /\ ctx.residue[i].pos \in 1 .. Len(fed)
        /\ fed[ctx.residue[i].pos] = ctx.residue[i].value
        /\ ctx.residue[i].pos > 1
              => fed[ctx.residue[i].pos - 1] # ctx.residue[i].value

\* three confirmed points, each confirmed by the sample after its own; the
\* interim point is the end of a run of two samples
C23_Witness ==
    /\ ctx.state = RFC_STATE_BUSY_INTERIM
    /\ ctx.residue_cnt = 3
    /\ \A i \in 0 .. 2 : ctx.residue[i].pos = i + 1
    /\ ctx.residue[3].pos = 5
    /\ ctx.internal.pos = 5

\* INIT0 -> INIT -> BUSY -> BUSY_INTERIM <-> BUSY -> FINALIZE -> FINISHED
ChainEdges ==
    {<<RFC_STATE_INIT0, RFC_STATE_INIT>>, <<RFC_STATE_INIT, RFC_STATE_BUSY>>,
     <<RFC_STATE_BUSY, RFC_STATE_BUSY_INTERIM>>,
     <<RFC_STATE_BUSY_INTERIM, RFC_STATE_BUSY>>,
     <<RFC_STATE_BUSY, RFC_STATE_FINALIZE>>,
     <<RFC_STATE_FINALIZE, RFC_STATE_FINISHED>>}

\* a change that enters ERROR
IntoError == {<<s, RFC_STATE_ERROR>> : s \in RFC_STATE_INIT0 .. RFC_STATE_FINISHED}

\* a change back to INIT0
IntoInit0 == {<<s, RFC_STATE_INIT0>> : s \in RFC_STATE_INIT .. RFC_STATE_ERROR}

\* ERROR and FINISHED are terminal for RFC_feed and RFC_finalize, and the state
\* goes back to INIT0 in RFC_deinit only
TerminalStates ==
    /\ [][(Called({"RFC_feed", "RFC_finalize"})
             /\ ctx.state \in {RFC_STATE_FINISHED, RFC_STATE_ERROR})
               => ctx'.state = ctx.state]_vars
    /\ [][(ctx.state # RFC_STATE_INIT0 /\ ctx'.state = RFC_STATE_INIT0)
               => Called({"RFC_deinit"})]_vars

\* C24 as written: every change of the state follows an edge of the chain
\* INIT0 -> INIT -> BUSY -> BUSY_INTERIM <-> BUSY -> FINALIZE -> FINISHED or
\* enters ERROR, ERROR and FINISHED are terminal for RFC_feed and RFC_finalize,
\* and RFC_deinit is the only way back to INIT0.
C24_ChainOfStates ==
    /\ [](ctx.hist.edges \subseteq ChainEdges \cup IntoError \cup IntoInit0)
    /\ TerminalStates

\* C24 amended: the changes are those of the chain and INIT -> FINALIZE, which
\* RFC_finalize makes when no sample was fed; RFC_feed changes the state from
\* INIT to BUSY and from BUSY to BUSY_INTERIM only, the change from BUSY_INTERIM
\* to BUSY is made by RFC_finalize.
C24_ChainWithEmptyStream ==
    /\ [](ctx.hist.edges \subseteq
             ChainEdges \cup {<<RFC_STATE_INIT, RFC_STATE_FINALIZE>>}
                        \cup IntoError \cup IntoInit0)
    /\ TerminalStates
    /\ [][Called({"RFC_feed"})
             => ctx'.hist.edges \ ctx.hist.edges \subseteq
                    {<<RFC_STATE_INIT, RFC_STATE_BUSY>>,
                     <<RFC_STATE_BUSY, RFC_STATE_BUSY_INTERIM>>}]_vars

\* a context that went through the whole chain and back to INIT0
C24_Witness ==
    /\ ctx.state = RFC_STATE_INIT0
    /\ ctx.hist.edges = ChainEdges \cup {<<RFC_STATE_FINISHED, RFC_STATE_INIT0>>}

\* the least and the largest value of a non-empty sequence
MinOf(seq) == CHOOSE v \in {seq[i] : i \in 1 .. Len(seq)} :
                  \A i \in 1 .. Len(seq) : v <= seq[i]

MaxOf(seq) == CHOOSE v \in {seq[i] : i \in 1 .. Len(seq)} :
                  \A i \in 1 .. Len(seq) : v >= seq[i]

\* INIT: no sample has been seen
RestsInInit(c, samples) ==
    /\ samples = <<>>
    /\ c.internal.pos = 0
    /\ c.residue_cnt = 0

\* residue[residue_cnt] is the interim point of the current run: a sample of
\* the stream, further in the direction of the slope than the turning point
\* before it, and every sample after it lies behind it by no more than the
\* hysteresis
RestsInBusyInterim(c, samples) ==
    With(c.residue[c.residue_cnt], LAMBDA t :
         /\ c.residue_cnt >= 1
         /\ c.internal.slope \in {-1, 1}
         /\ t.pos \in 1 .. Len(samples)
         /\ samples[t.pos] = t.value
         /\ (t.value - c.residue[c.residue_cnt - 1].value) * c.internal.slope > 0
         /\ \A j \in t.pos + 1 .. Len(samples) :
                /\ (samples[j] - t.value) * c.internal.slope <= 0
                /\ Abs(samples[j] - t.value) <= c.hysteresis)

\* C25 as written: in BUSY at least one turning point has been confirmed
\* (residue_cnt >= 1) and there is no interim point, in BUSY_INTERIM
\* residue[residue_cnt] holds the interim point of the current run, in INIT no
\* sample has been seen.
C25_MeaningOfStates ==
    /\ ctx.state = RFC_STATE_BUSY => ctx.residue_cnt >= 1 /\ ctx.hist.tp >= 1
    /\ ctx.state = RFC_STATE_BUSY_INTERIM => RestsInBusyInterim(ctx, fed)
    /\ ctx.state = RFC_STATE_INIT => RestsInInit(ctx, fed)

\* C25 amended: in BUSY at least one sample has been seen and no turning point
\* has been confirmed: the residue is empty, there is no interim point, the
\* tracked extrema are the least and the largest sample and they differ by no
\* more than the hysteresis.  BUSY_INTERIM and INIT are as written.
C25_BusySeeksFirstTurningPoint ==
    /\ ctx.state = RFC_STATE_BUSY
          => /\ Len(fed) >= 1
             /\ ctx.residue_cnt = 0 /\ ctx.hist.tp = 0
             /\ ctx.internal.slope = 0
             /\ ctx.internal.extrema[0].value = MinOf(fed)
             /\ ctx.internal.extrema[1].value = MaxOf(fed)
             /\ MaxOf(fed) - MinOf(fed) <= ctx.hysteresis
    /\ ctx.state = RFC_STATE_BUSY_INTERIM => RestsInBusyInterim(ctx, fed)
    /\ ctx.state = RFC_STATE_INIT => RestsInInit(ctx, fed)

\* BUSY after three samples within the hysteresis, the first and the third the
\* least and the second the largest
C25_Witness ==
    /\ ctx.state = RFC_STATE_BUSY
    /\ Len(fed) = 3
    /\ ctx.internal.extrema[0].pos = 1
    /\ ctx.internal.extrema[1].pos = 2
    /\ fed[3] = fed[1]

\* C26: for every in-window stream, every index at which RFC_feed, the filter
\* or the detector reads or writes the residue is less than the number of
\* elements the buffer was created with.
C26_ResidueIndexInBuffer ==
    (/\ ctx.state \in RFC_STATE_INIT .. RFC_STATE_FINISHED
     /\ ctx.class_count = 0 \/ AllInWindow(ctx, fed))
        => ~ctx.hist.oob

\* the contexts one more sample, or RFC_finalize, makes the detector start with
DetectorStarts(c) ==
    IF ~Feeding(c.state) \/ c.class_count = 0 THEN {}
    ELSE {f.ctx : f \in {g \in {RFC_feed_filter_pt(c, NextPoint(c, v)) :
                                     v \in SampleValues} : g.new_tp}}
         \cup (IF c.state = RFC_STATE_BUSY_INTERIM
                THEN {SetState([c EXCEPT !.residue_cnt = @ + 1], RFC_STATE_BUSY)}
                ELSE {})

\* the contexts the passes of the loop of RFC_cycle_find_4ptm start with
RECURSIVE DetectorPasses(_)
DetectorPasses(c) ==
    IF c.residue_cnt < 4 THEN {}
    ELSE {c} \cup With(FourPointStep(c, c.internal.flags), LAMBDA r :
                       IF r.closed THEN DetectorPasses(r.ctx) ELSE {})

\* the rainflow matrix of c with one cycle from the class of from to the class
\* of to, when these differ
CycleInRfm(c, from, to) ==
    With(ClampClass(c, QUANTIZE(c, from.value)), LAMBDA class_from :
    With(ClampClass(c, QUANTIZE(c, to.value)), LAMBDA class_to :
         IF c.rfm_alloc /\ class_from # class_to
         THEN [c.rfm EXCEPT ![c.class_count * class_from + class_to] =
                                @ + c.curr_inc]
         ELSE c.rfm))

\* one pass on c, whose last four confirmed points are A, B, C, D
OneDetectorStep(c) ==
    LET n == c.residue_cnt
        A == c.residue[n - 4]
        B == c.residue[n - 3]
        C == c.residue[n - 2]
        D == c.residue[n - 1]
        r == FourPointStep(c, c.internal.flags)
    IN  /\ r.closed <=> (/\ Min2(A.value, D.value) <= Min2(B.value, C.value)
                          /\ Max2(B.value, C.value) <= Max2(A.value, D.value))
        /\ r.closed =>
              /\ r.ctx.hist.cycles = c.hist.cycles + 1
              /\ r.ctx.rfm = CycleInRfm(c, B, C)
              /\ r.ctx.residue_cnt = n - 2
              /\ \A i \in 0 .. n - 4 : r.ctx.residue[i] = c.residue[i]
              /\ r.ctx.residue[n - 3] = D
              /\ c.state = RFC_STATE_BUSY_INTERIM
                    => r.ctx.residue[n - 2] = c.residue[n]
              /\ r.ctx.state = c.state
        /\ ~r.closed => Outcome(r.ctx) = Outcome(c)

\* C27: one pass of the detector on n >= 4 confirmed points closes the pair
\* (B,C) of the last four points A, B, C, D if and only if
\* min(A,D) <= min(B,C) and max(B,C) <= max(A,D); then one cycle is counted from
\* B to C, B and C are removed, A, D and the interim point keep their order and
\* content, n decreases by 2 and the points before A are unchanged.
C27_OneDetectorStep ==
    \A s \in DetectorStarts(ctx) : \A c \in DetectorPasses(s) : OneDetectorStep(c)

\* RFC_finalize has closed the cycle 1 -> 2 within 3 -> 0, behind a first point
C27_Witness ==
    /\ ctx.state = RFC_STATE_FINISHED
    /\ ctx.class_count = 3
    /\ fed = <<0, 3, 1, 2, 0>>
    /\ ctx.hist.cycles = 1
    /\ ctx.residue_cnt = 3
    /\ ctx.rfm[ctx.class_count * 1 + 2] = ctx.full_inc

\* the points i+1 and i+2 of the residue of c lie within the points i and i+3
Closable(c, i) ==
    /\ Min2(c.residue[i].value, c.residue[i + 3].value)
          <= Min2(c.residue[i + 1].value, c.residue[i + 2].value)
    /\ Max2(c.residue[i + 1].value, c.residue[i + 2].value)
          <= Max2(c.residue[i].value, c.residue[i + 3].value)

\* C28: with class_count > 0, after every sample and after RFC_finalize, no four
\* consecutive confirmed points of the residue satisfy the closure rule.
C28_IrreducibleResidue ==
    (ctx.class_count > 0 /\ (Feeding(ctx.state) \/ ctx.state = RFC_STATE_FINISHED))
        => \A i \in 0 .. ctx.residue_cnt - 4 : ~Closable(ctx, i)

\* RFC_finalize has closed 2 -> 1 and then, with the points that came to lie
\* side by side, 3 -> 0
C28_Witness ==
    /\ ctx.class_count > 0
    /\ ctx.state = RFC_STATE_FINISHED
    /\ fed = <<0, 3, 0, 2, 1, 3>>
    /\ ctx.hist.cycles = 2
    /\ ctx.residue_cnt = 2

\* the step feeds the one sample fed'[Len(fed')]
FeedsOne ==
    /\ Len(fed') = Len(fed) + 1
    /\ fed' = Append(fed, fed'[Len(fed')])

\* the first sample of seq that carries v, as a residue point of c
FirstWith(c, seq, v) ==
    [value |-> v, cls |-> QUANTIZE(c, v),
     pos |-> CHOOSE i \in 1 .. Len(seq) :
                 seq[i] = v /\ \A j \in 1 .. i - 1 : seq[j] # v]

\* nothing but the position and the tracked extrema has changed
EmitsNothing ==
    /\ ctx'.residue = ctx.residue
    /\ ctx'.residue_cnt = ctx.residue_cnt
    /\ ctx'.rfm = ctx.rfm
    /\ ctx'.pseudo_damage = ctx.pseudo_damage
    /\ ctx'.internal.slope = ctx.internal.slope
    /\ ctx'.hist.tp = ctx.hist.tp

\* C29: the first sample sets min = max = sample and moves INIT to BUSY without
\* touching the residue; in BUSY a sample that is no new extremum, or that
\* leaves max - min <= hysteresis, emits nothing; the first sample that is a new
\* extremum with max - min > hysteresis stores the opposite, earlier extremum as
\* residue[0], sets the slope to -1 for a new minimum and +1 for a new maximum,
\* stores the sample as interim point in residue[1], sets residue_cnt = 1 and
\* moves to BUSY_INTERIM.
C29_FilterPhase1 ==
    /\ [][(FeedsOne /\ ctx.state = RFC_STATE_INIT)
            => (/\ ctx'.state = RFC_STATE_BUSY
                /\ ctx'.internal.extrema =
                       [i \in 0 .. 1 |-> FirstWith(ctx, fed', fed'[1])]
                /\ EmitsNothing)]_vars
    /\ [][(/\ FeedsOne
            /\ ctx.state = RFC_STATE_BUSY
            /\ \/ fed'[Len(fed')] \in MinOf(fed) .. MaxOf(fed)
               \/ MaxOf(fed') - MinOf(fed') <= ctx.hysteresis)
            => (/\ ctx'.state = RFC_STATE_BUSY
                /\ ctx'.internal.extrema[0] = FirstWith(ctx, fed', MinOf(fed'))
                /\ ctx'.internal.extrema[1] = FirstWith(ctx, fed', MaxOf(fed'))
                /\ EmitsNothing)]_vars
    /\ [][(/\ FeedsOne
            /\ ctx.state = RFC_STATE_BUSY
            /\ fed'[Len(fed')] \notin MinOf(fed) .. MaxOf(fed)
            /\ MaxOf(fed') - MinOf(fed') > ctx.hysteresis)
            => (/\ ctx'.state = RFC_STATE_BUSY_INTERIM
                /\ ctx'.residue_cnt = 1
                /\ ctx'.residue[0] =
                       FirstWith(ctx, fed, IF fed'[Len(fed')] < MinOf(fed)
                                           THEN MaxOf(fed) ELSE MinOf(fed))
                /\ ctx'.internal.slope =
                       (IF fed'[Len(fed')] < MinOf(fed) THEN -1 ELSE 1)
                /\ ctx'.residue[1] =
                       [value |-> fed'[Len(fed')],
                        cls |-> QUANTIZE(ctx, fed'[Len(fed')]),
                        pos |-> Len(fed')]
                /\ ctx'.rfm = ctx.rfm)]_vars

\* 1, 2 and 1 lie within the hysteresis; 3 is a new maximum further away: the
\* minimum, sample 1, is the first turning point
C29_Witness ==
    /\ ctx.state = RFC_STATE_BUSY_INTERIM
    /\ ctx.hysteresis = 1
    /\ fed = <<1, 2, 1, 3>>
    /\ ctx.residue_cnt = 1
    /\ ctx.residue[0].pos = 1
    /\ ctx.residue[1].pos = 4
    /\ ctx.internal.slope = 1

\* the sample the step feeds, as a residue point
Sample == [value |-> fed'[Len(fed')], cls |-> QUANTIZE(ctx, fed'[Len(fed')]),
           pos |-> ctx.internal.pos + 1]

\* the sign s of (sample - interim.value), +1 for 0
SignToInterim ==
    IF fed'[Len(fed')] < ctx.residue[ctx.residue_cnt].value THEN -1 ELSE 1

\* the step feeds one sample in BUSY_INTERIM that continues the slope
Continues ==
    /\ FeedsOne
    /\ ctx.state = RFC_STATE_BUSY_INTERIM
    /\ SignToInterim = ctx.internal.slope

\* no turning point is emitted: the confirmed points, the counters, the slope
\* and the state are as before
NoTurningPoint ==
    /\ ctx'.state = RFC_STATE_BUSY_INTERIM
    /\ ctx'.residue_cnt = ctx.residue_cnt
    /\ \A i \in 0 .. ctx.residue_cnt - 1 : ctx'.residue[i] = ctx.residue[i]
    /\ ctx'.internal.slope = ctx.internal.slope
    /\ ctx'.hist.tp = ctx.hist.tp
    /\ ctx'.rfm = ctx.rfm
    /\ ctx'.pseudo_damage = ctx.pseudo_damage

\* a sample against the slope and further than the hysteresis from the interim
\* point confirms the interim point, which is the last confirmed point after
\* the step; the slope is s and the sample is the new interim point
Reversal ==
    [][(/\ FeedsOne
        /\ ctx.state = RFC_STATE_BUSY_INTERIM
        /\ SignToInterim # ctx.internal.slope
        /\ Abs(fed'[Len(fed')] - ctx.residue[ctx.residue_cnt].value)
              > ctx.hysteresis)
        => (/\ ctx'.state = RFC_STATE_BUSY_INTERIM
            /\ ctx'.hist.tp = ctx.hist.tp + 1
            /\ ctx'.residue_cnt >= 1
            /\ ctx'.residue[ctx'.residue_cnt - 1] = ctx.residue[ctx.residue_cnt]
            /\ ctx'.internal.slope = SignToInterim
            /\ ctx'.residue[ctx'.residue_cnt] = Sample)]_vars

\* C30 as written: in BUSY_INTERIM a sample whose sign s to the interim point
\* (+1 for an equal sample) is the slope overwrites the interim slot (value,
\* class and pos) and no turning point is emitted; a sample with another sign
\* and further away than the hysteresis confirms the interim point, sets the
\* slope to s and becomes the new interim point.
C30_ContinuationOverwrites ==
    /\ [][Continues
            => (ctx'.residue[ctx.residue_cnt] = Sample /\ NoTurningPoint)]_vars
    /\ Reversal

\* C30 amended: the interim slot is overwritten when s is the slope and the
\* sample differs from the interim value; a sample equal to the interim value
\* on a rising slope leaves the interim point, its pos included, as it is.
C30_ContinuationKeepsEqual ==
    /\ [][Continues
            => (/\ ctx'.residue[ctx.residue_cnt] =
                      (IF fed'[Len(fed')] = ctx.residue[ctx.residue_cnt].value
                       THEN ctx.residue[ctx.residue_cnt] ELSE Sample)
                /\ NoTurningPoint)]_vars
    /\ Reversal

\* the third sample repeats the interim value on a rising slope: the interim
\* point is still the second sample
C30_Witness ==
    /\ ctx.state = RFC_STATE_BUSY_INTERIM
    /\ fed = <<0, 2, 2>>
    /\ ctx.hist.feeds = 3
    /\ ctx.residue_cnt = 1
    /\ ctx.residue[1].pos = 2
    /\ ctx.internal.pos = 3
    /\ ctx.internal.slope = 1

\* the class of v, pinned to the last class
Pinned(c, v) ==
    IF (v - c.class_offset) \div c.class_width >= c.class_count
    THEN c.class_count - 1
    ELSE (v - c.class_offset) \div c.class_width

\* v quantizes to a class index that is no class of c
BeyondLastClass(c, v) == v >= c.class_offset + c.class_width * c.class_count

\* a pass of the detector on c whose pair (B,C) has an end point beyond the last
\* class: the pair is closed and removed as any other, and counted at the entry
\* of the pinned classes, which is an entry of the matrix
ClampedCycle(c) ==
    LET n == c.residue_cnt
        B == c.residue[n - 3].value
        C == c.residue[n - 2].value
        idx == c.class_count * Pinned(c, B) + Pinned(c, C)
        r == FourPointStep(c, c.internal.flags)
    IN  (Closable(c, n - 4) /\ (BeyondLastClass(c, B) \/ BeyondLastClass(c, C)))
          => /\ r.closed
             /\ r.ctx.residue_cnt = n - 2
             /\ r.ctx.hist.cycles = c.hist.cycles + 1
             /\ idx \in 0 .. c.class_count * c.class_count - 1
             /\ DOMAIN r.ctx.rfm = 0 .. c.class_count * c.class_count - 1
             /\ \A i \in DOMAIN c.rfm :
                    r.ctx.rfm[i] = IF i = idx /\ Pinned(c, B) # Pinned(c, C)
                                   THEN c.rfm[i] + c.curr_inc ELSE c.rfm[i]

\* C31: a closed cycle with an end point that quantizes to a class index
\* >= class_count is closed and removed, and counted with that end point pinned
\* to the class class_count - 1; the index class_count * from + to of the matrix
\* that is written is less than class_count * class_count.
C31_ClampedAtCounting ==
    \A s \in DetectorStarts(ctx) : \A c \in DetectorPasses(s) : ClampedCycle(c)

\* the cycle 3 -> 1 of three classes of width 1: 3 is the upper boundary of the
\* window and is counted in class 2
C31_Witness ==
    /\ ctx.state = RFC_STATE_FINISHED
    /\ ctx.class_count = 3 /\ ctx.class_width = 1
    /\ fed = <<0, 3, 1, 3>>
    /\ ctx.residue_cnt = 2
    /\ ctx.rfm[3 * 2 + 1] = ctx.full_inc
    /\ SumRfm(ctx) = ctx.full_inc

\* the context with the class parameters of c and the argument flags, fed the
\* samples in one call and finalized if c is
WithFlags(c, flags, samples) ==
    With(RFC_feed(InitOf(ctx0, [class_count |-> c.class_count,
                                class_width |-> c.class_width,
                                class_offset |-> c.class_offset,
                                hysteresis |-> c.hysteresis,
                                flags |-> flags], AllocOk).ctx,
                  Buffer(samples), Len(samples)).ctx,
         LAMBDA d : IF c.state = RFC_STATE_FINISHED
                    THEN RFC_finalize(d, "RFC_RES_NONE").ctx ELSE d)

\* residue, residue_cnt and state
Unflagged(c) ==
    [residue |-> c.residue, residue_cnt |-> c.residue_cnt, state |-> c.state]

\* C32: RFC_FLAGS_DEFAULT behaves as COUNT_RFM | COUNT_DAMAGE; with COUNT_RFM
\* cleared no entry of the rainflow matrix is ever changed, with COUNT_DAMAGE
\* cleared pseudo_damage stays 0; the residue, residue_cnt and the state a
\* stream produces are the same for every value of flags.
C32_FlagsSelectSinks ==
    (Feeding(ctx.state) \/ ctx.state = RFC_STATE_FINISHED) =>
        /\ "RFC_FLAGS_COUNT_RFM" \notin ctx.internal.flags
              => \A i \in DOMAIN ctx.rfm : ctx.rfm[i] = 0
        /\ "RFC_FLAGS_COUNT_DAMAGE" \notin ctx.internal.flags
              => ctx.pseudo_damage = 0
        /\ ctx.internal.flags = RFC_FLAGS_COUNT_RFM \cup RFC_FLAGS_COUNT_DAMAGE
              => /\ Outcome(ctx) = Outcome(WithFlags(ctx, RFC_FLAGS_DEFAULT, fed))
                 /\ Outcome(ctx) = Outcome(WithFlags(ctx, ctx.internal.flags, fed))
        /\ \A f \in FlagChoices : Unflagged(ctx) = Unflagged(WithFlags(ctx, f, fed))

\* a cycle counted with COUNT_DAMAGE alone: pseudo damage, no rainflow matrix
C32_Witness ==
    /\ ctx.state = RFC_STATE_FINISHED
    /\ ctx.internal.flags = RFC_FLAGS_COUNT_DAMAGE
    /\ ctx.hist.counted >= 1
    /\ ctx.pseudo_damage > 0
    /\ ~ctx.rfm_alloc

\* with class_count = 0 no cycle is counted, and while samples are fed the
\* residue holds at most one confirmed point, the last one, and the interim
\* point
ResidueOnly(c) ==
    /\ c.hist.cycles = 0 /\ c.hist.counted = 0
    /\ c.rfm = NoRfm
    /\ c.pseudo_damage = 0
    /\ Feeding(c.state) => c.residue_cnt <= 1

\* C33: with class_count = 0 the detector never counts a cycle (rainflow matrix
\* and pseudo_damage never change), RFC_feed assigns no class to the samples,
\* and after every sample the residue holds at most one confirmed turning point
\* and the interim point.
C33_NoClassesPath ==
    (ctx.class_count = 0 /\ (Feeding(ctx.state) \/ ctx.state = RFC_STATE_FINISHED))
        => /\ ResidueOnly(ctx)
           /\ \A i \in 0 .. InUse(ctx) - 1 : ctx.residue[i].cls = 0

\* the pseudo damage of one cycle over d classes, in the unit of the model
DamageOver(c, d) == Pow(c.class_width * d, Abs(c.wl_k))

\* a pass of the detector on c that closes the pair (B,C), of the clamped classes
\* cf and ct
SinksOfCycle(c) ==
    LET n == c.residue_cnt
        cf == Pinned(c, c.residue[n - 3].value)
        ct == Pinned(c, c.residue[n - 2].value)
        r == FourPointStep(c, c.internal.flags)
    IN  Closable(c, n - 4) =>
          /\ r.closed /\ r.ctx.residue_cnt = n - 2
          /\ cf = ct => (r.ctx.rfm = c.rfm /\ r.ctx.pseudo_damage = c.pseudo_damage)
          /\ cf # ct =>
                /\ r.ctx.rfm = [c.rfm EXCEPT ![cf * c.class_count + ct] =
                                                @ + c.curr_inc]
                /\ r.ctx.pseudo_damage > c.pseudo_damage
                /\ r.ctx.pseudo_damage - c.pseudo_damage
                      = DamageOver(c, Abs(ct - cf))

\* C34: a closed cycle of equal clamped classes changes neither the rainflow
\* matrix nor pseudo_damage, and its points are removed; a closed cycle with
\* cf # ct, under default flags, increments the one entry
\* RFM[cf * class_count + ct] and increases pseudo_damage by an amount that
\* depends on |ct - cf| only; no other step changes the matrix or pseudo_damage.
C34_CounterSinks ==
    /\ [](\A s \in DetectorStarts(ctx) : \A c \in DetectorPasses(s) :
              SinksOfCycle(c))
    /\ [][(/\ Feeding(ctx.state)
            /\ ctx'.state # RFC_STATE_INIT0
            /\ ctx'.hist.cycles = ctx.hist.cycles)
            => (ctx'.rfm = ctx.rfm /\ ctx'.pseudo_damage = ctx.pseudo_damage)]_vars

\* the fifth sample has closed the cycle 3 -> 2, both in the last class
C34_Witness ==
    /\ ctx.state = RFC_STATE_BUSY_INTERIM
    /\ ctx.class_count = 3
    /\ fed = <<0, 3, 2, 3, 0>>
    /\ ctx.hist.cycles = 1
    /\ SumRfm(ctx) = 0
    /\ ctx.pseudo_damage = 0

\* C35: in every reachable state curr_inc = full_inc, and every entry of the
\* rainflow matrix is a non-negative multiple of full_inc.
C35_WholeCycles ==
    /\ ctx.curr_inc = ctx.full_inc
    /\ \A i \in DOMAIN ctx.rfm :
          /\ ctx.rfm[i] >= 0
          /\ ctx.full_inc > 0
          /\ ctx.rfm[i] % ctx.full_inc = 0

\* a matrix with an entry of two cycles
C35_Witness ==
    /\ ctx.state = RFC_STATE_FINISHED
    /\ ctx.full_inc > 0
    /\ \E i \in DOMAIN ctx.rfm : ctx.rfm[i] = 2 * ctx.full_inc

\* RFC_deinit in a state other than INIT0 returns true, passes the residue to
\* the allocator if it came from there and the matrix if there is one, and
\* leaves INIT0 without residue and matrix; in INIT0 it returns false and
\* changes nothing
DeinitCall ==
    /\ ctx.state # RFC_STATE_INIT0 =>
          /\ ctx'.hist.last.ret
          /\ ctx'.state = RFC_STATE_INIT0
          /\ ctx'.residue_cnt = 0 /\ ctx'.residue_cap = 0
          /\ ctx'.residue_ptr = "NULL" /\ ~ctx'.rfm_alloc /\ ctx'.rfm = NoRfm
          /\ ctx'.hist.heap_res =
                ctx.hist.heap_res
                  - (IF ctx.residue_ptr # "NULL" /\ ~ctx.internal.res_static
                     THEN 1 ELSE 0)
          /\ ctx'.hist.heap_rfm =
                ctx.hist.heap_rfm - (IF ctx.rfm_alloc THEN 1 ELSE 0)
    /\ ctx.state = RFC_STATE_INIT0 =>
          (~ctx'.hist.last.ret /\ Fields(ctx') = Fields(ctx))

\* C36: RFC_deinit succeeds in every state other than INIT0, releases each
\* buffer obtained from the allocator exactly once (the embedded residue is
\* never passed to the allocator) and leaves INIT0 with residue_cnt = 0,
\* residue_cap = 0, no residue and no matrix; in INIT0 it returns false and
\* changes nothing.
C36_DeinitReleases ==
    [][Called({"RFC_deinit"}) => DeinitCall]_vars

\* RFC_deinit has released the residue and the matrix of a finished context of
\* three classes
C36_Witness ==
    /\ ctx.state = RFC_STATE_INIT0
    /\ ctx.hist.last.op = "RFC_deinit" /\ ctx.hist.last.ret
    /\ ctx.hist.last.pre = RFC_STATE_FINISHED
    /\ ctx.class_count = 3
    /\ ctx.hist.heap_res = 0 /\ ctx.hist.heap_rfm = 0
    /\ ctx.residue_ptr = "NULL"

\* C37: after a successful RFC_init, for every stream of samples v with
\* class_offset <= v < class_offset + class_width * class_count (samples equal
\* to class_offset included), no assertion of the filter, the detector or the
\* counter fails in RFC_feed and RFC_finalize.
C37_NoAssertionFails ==
    (/\ ctx.class_count > 0
     /\ Feeding(ctx.state) \/ ctx.state = RFC_STATE_FINISHED
     /\ AllInWindow(ctx, fed))
        => ~ctx.hist.assert

\* RFC_init obtained the residue from the allocator and was refused the matrix
MatrixRefused(arg) ==
    /\ arg.cfg.class_count >= 2 /\ arg.cfg.class_count <= 512
    /\ arg.cfg.class_width > 0
    /\ 2 * arg.cfg.class_count > INTERNAL_RESIDUE_NUMEL
    /\ arg.alloc.residue /\ ~arg.alloc.rfm

\* C38: when RFC_init fails because the allocator refused the rainflow matrix
\* after it had handed out the residue buffer, the residue buffer has been
\* released again: the failed call leaves no block of the context outstanding.
C38_NoLeakOnFailedInit ==
    [][(/\ Called({"RFC_init"})
        /\ ctx.state = RFC_STATE_INIT0
        /\ MatrixRefused(ctx'.hist.last.arg)
        /\ ~ctx'.hist.last.ret)
           => /\ ctx'.hist.heap_res = ctx.hist.heap_res
              /\ ctx'.hist.heap_rfm = ctx.hist.heap_rfm]_vars

\* the residue point pt carries the value of the sample fed at its position
OwnSample(pt) ==
    /\ pt.pos \in 1 .. Len(fed)
    /\ fed[pt.pos] = pt.value

\* a pass on c that closes (B,C) between A and D leaves D, with the position of
\* D, in the place of B: of two equal extrema B and D the later one is kept
KeepsLater(c) ==
    LET n == c.residue_cnt
        B == c.residue[n - 3]
        D == c.residue[n - 1]
        r == FourPointStep(c, c.internal.flags)
    IN  r.closed =>
            /\ r.ctx.residue[n - 3].pos = D.pos
            /\ r.ctx.residue[n - 3].value = D.value
            /\ B.pos < D.pos

\* C39: every residue point in use, confirmed or interim, with position p and
\* value v is the p-th sample fed since init (base 1) and that sample has the
\* value v; when the detector removes a cycle, D takes the place of B, so that of
\* equal extremum values the later occurrence, with its later position, stays.
C39_PositionProvenance ==
    /\ \A i \in 0 .. InUse(ctx) - 1 : OwnSample(ctx.residue[i])
    /\ \A s \in DetectorStarts(ctx) : \A c \in DetectorPasses(s) : KeepsLater(c)

\* the maximum 2 was fed at the positions 2 and 4; the cycle 2 -> 1 is closed and
\* the residue keeps the 2 of position 4
C39_Witness ==
    /\ ctx.state = RFC_STATE_BUSY_INTERIM
    /\ fed = <<0, 2, 1, 2, 0>>
    /\ ctx.hist.cycles = 1
    /\ ctx.residue_cnt = 2
    /\ ctx.residue[1].value = 2
    /\ ctx.residue[1].pos = 4
    /\ ctx.residue[2].pos = 5

(* --------------------------- specifications ---------------------------- *)

Next ==
    \/ DoInit(Configs)
    \/ DoFeed(MaxSamples)
    \/ DoFinalize(ResidualMethods)
    \/ DoDeinit

Spec == Init /\ [][Next]_vars

NextLong ==
    \/ DoInit(LongConfigs)
    \/ DoFeed(MaxLongSamples)
    \/ DoFinalize(ResidualMethods)
    \/ DoDeinit

\* One configuration, longer streams
SpecLong == Init /\ [][NextLong]_vars

NextMisuse ==
    \/ CallInit(MisuseConfigs, AllocAnswers)
    \/ CallFeed(MaxMisuseSamples)
    \/ CallFinalize(MisuseMethods)
    \/ CallDeinit

\* The public functions called in any state and with any argument
SpecMisuse == Init /\ [][NextMisuse]_vars

NextReuse ==
    \/ DoReuse(ReuseConfigs)
    \/ DoFeed(MaxReuseSamples)
    \/ DoFinalize(ResidualMethods)
    \/ DoDeinit

\* One context used MaxUses times
SpecReuse == Init /\ [][NextReuse]_vars

NextReference ==
    \/ DoInit(Configs \cup ExampleConfigs)
    \/ DoFeed(MaxSamples)
    \/ FeedExample(MaxExampleChunk)
    \/ DoFinalize(ResidualMethods)
    \/ DoDeinit

\* The contexts of Spec and those of the tests, fed the streams of the tests
SpecReference == Init /\ [][NextReference]_vars

NextFlags ==
    \/ DoInit(FlagConfigs)
    \/ DoFeed(MaxSamples)
    \/ DoFinalize(ResidualMethods)
    \/ DoDeinit

\* One class layout with every value of flags
SpecFlags == Init /\ [][NextFlags]_vars

====
